---------------------------- MODULE Spec2Model ----------------------------
(***************************************************************************)
(* Embedding similarity search, near-duplicate clustering and polarity     *)
(* based contradiction pairing of the litigation-support scripts           *)
(* (scripts/analyze_vector_store.py, scripts/analyze_exhibit_evidence.py,  *)
(* scripts/build_expanded_visuals.py, scripts/build_inconsistency_visuals  *)
(* .py, scripts/query_vector_store.py).                                    *)
(*                                                                         *)
(* Python lists and numpy arrays are functions over 0..n-1, so that the    *)
(* indices of the model are the indices of the code.  Lists that the code  *)
(* builds by append are sequences.  Strings that the code scans are        *)
(* sequences of one-character strings.  Embeddings are integer vectors of  *)
(* norm Unit, so a dot product is a cosine similarity in units of          *)
(* 1/(Unit*Unit).                                                          *)
(***************************************************************************)
EXTENDS Integers, Sequences, FiniteSets, TLC

VARIABLES
    text,        \* polarity: the text handed to _polarity_sign
    min_hits,    \* polarity: the min_hits handed to _polarity_sign
    signs,       \* polarity: copy |-> what that copy of _polarity_sign returned
    embeddings,  \* the store: embeddings.npy, row i is embeddings[i]
    records,     \* the store: metadata.jsonl, record i is records[i]
    threshold,   \* clustering: the threshold of the running call
    sims,        \* clustering: the similarity matrix, diagonal zeroed
    pairs,       \* clustering: np.argwhere(sims >= threshold), row-major
    pairIdx,     \* clustering: position of the for loop in pairs
    parent,      \* clustering: the union-find parent list
    result,      \* clustering: the returned list of clusters
    prev,        \* clustering: threshold and result of the call before
    pc,          \* clustering: position of _find_duplicate_clusters
    qvec,        \* top-k: the query vector
    order,       \* top-k: np.argsort(-scores) of the build for this query
    hits,        \* top-k: the hits of the last query
    call,        \* contradictions/top-k: the parameters of the last call
    allEdges,    \* contradictions: the edge list before sort and truncation
    edges,       \* contradictions: the returned edge list
    sources,     \* merging: the source stores on disk
    outdir,      \* merging: the files of the output directory
    frames,      \* concurrent calls: the local variables of each call
    pending,     \* unions in any order: the positions of pairs not yet unioned
    args,        \* text and file functions: the arguments of the call
    locals       \* text and file functions: the locals and the return value

polarityVars == <<text, min_hits, signs>>
storeVars    == <<embeddings, records>>
clusterVars  == <<threshold, sims, pairs, pairIdx, parent, result, prev, pc>>
queryVars    == <<qvec, order, hits>>
edgeVars     == <<allEdges, edges>>
mergeVars    == <<sources, outdir>>
restVars     == <<pending, args, locals>>
vars == <<text, min_hits, signs, embeddings, records, threshold, sims, pairs,
          pairIdx, parent, result, prev, pc, qvec, order, hits, call,
          allEdges, edges, sources, outdir, frames,
          pending, args, locals>>

-----------------------------------------------------------------------------
(* Generic helpers for Python lists.                                       *)

Range(f) == {f[x] : x \in DOMAIN f}

Max2(a, b) == IF a >= b THEN a ELSE b
Min2(a, b) == IF a <= b THEN a ELSE b

RECURSIVE SumSeq(_)
SumSeq(s) == IF s = <<>> THEN 0 ELSE Head(s) + SumSeq(Tail(s))

RECURSIVE Flatten(_)
Flatten(ss) == IF ss = <<>> THEN <<>> ELSE Head(ss) \o Flatten(Tail(ss))

\* every sequence over S of length at most n
SeqsUpTo(S, n) == UNION {[1..k -> S] : k \in 0..n}

-----------------------------------------------------------------------------
(* Polarity: _polarity_sign and _polarity_counts.                          *)

NEGATION_TERMS ==
  << <<"n","o"," ">>,
     <<"n","o","t"," ">>,
     <<"n","e","v","e","r">>,
     <<"d","e","n","i","e","d">>,
     <<"w","i","t","h","o","u","t">>,
     <<"l","a","c","k">>,
     <<"f","a","i","l","e","d">>,
     <<"r","e","f","u","s","e","d">>,
     <<"c","a","n","n","o","t">>,
     <<"v","o","i","d">> >>

AFFIRM_TERMS ==
  << <<"g","r","a","n","t","e","d">>,
     <<"o","r","d","e","r","e","d">>,
     <<"f","i","n","d","s">>,
     <<"c","o","n","c","l","u","d","e","s">>,
     <<"d","e","t","e","r","m","i","n","e","s">>,
     <<"a","p","p","r","o","v","e","d">>,
     <<"s","u","s","t","a","i","n","e","d">>,
     <<"a","f","f","i","r","m","e","d">> >>

LowerMap ==
  ("A" :> "a") @@ ("B" :> "b") @@ ("C" :> "c") @@ ("D" :> "d") @@
  ("E" :> "e") @@ ("F" :> "f") @@ ("G" :> "g") @@ ("H" :> "h") @@
  ("I" :> "i") @@ ("J" :> "j") @@ ("K" :> "k") @@ ("L" :> "l") @@
  ("M" :> "m") @@ ("N" :> "n") @@ ("O" :> "o") @@ ("P" :> "p") @@
  ("Q" :> "q") @@ ("R" :> "r") @@ ("S" :> "s") @@ ("T" :> "t") @@
  ("U" :> "u") @@ ("V" :> "v") @@ ("W" :> "w") @@ ("X" :> "x") @@
  ("Y" :> "y") @@ ("Z" :> "z")

\* str.lower()
Lower(s) == [i \in 1..Len(s) |->
               IF s[i] \in DOMAIN LowerMap THEN LowerMap[s[i]] ELSE s[i]]

\* str.count(term) from position i: non-overlapping occurrences, left to right
RECURSIVE CountFrom(_, _, _)
CountFrom(s, term, i) ==
    IF i + Len(term) - 1 > Len(s) THEN 0
    ELSE IF SubSeq(s, i, i + Len(term) - 1) = term
         THEN 1 + CountFrom(s, term, i + Len(term))
         ELSE CountFrom(s, term, i + 1)

Count(s, term) == CountFrom(s, term, 1)

\* sum(text_lower.count(term) for term in terms)
CountTerms(text_lower, terms) ==
    SumSeq([k \in 1..Len(terms) |-> Count(text_lower, terms[k])])

\* a plausible slip: the text is not lower-cased before counting
PolaritySignExhibitNoLower(t, m) ==
    LET pos == CountTerms(t, AFFIRM_TERMS)
        neg == CountTerms(t, NEGATION_TERMS)
        score == pos - neg
    IN  IF score >= m THEN 1 ELSE IF score <= -m THEN -1 ELSE 0

\* analyze_exhibit_evidence.py _polarity_sign
PolaritySignExhibit(t, m) ==
    LET text_lower == Lower(t)
        pos == CountTerms(text_lower, AFFIRM_TERMS)
        neg == CountTerms(text_lower, NEGATION_TERMS)
        score == pos - neg
    IN  IF score >= m THEN 1 ELSE IF score <= -m THEN -1 ELSE 0

\* build_expanded_visuals.py _polarity_sign
PolaritySignExpanded(t, m) ==
    LET text_lower == Lower(t)
        pos == CountTerms(text_lower, AFFIRM_TERMS)
        neg == CountTerms(text_lower, NEGATION_TERMS)
        score == pos - neg
    IN  IF score >= m THEN 1 ELSE IF score <= -m THEN -1 ELSE 0

\* build_inconsistency_visuals.py _polarity_counts: <<pos, neg>>
PolarityCounts(t) ==
    LET text_lower == Lower(t)
        neg == CountTerms(text_lower, NEGATION_TERMS)
        pos == CountTerms(text_lower, AFFIRM_TERMS)
    IN  <<pos, neg>>

\* build_inconsistency_visuals.py _polarity_sign(pos, neg, min_hits)
PolaritySignCounts(pos, neg, m) ==
    LET score == pos - neg
    IN  IF score >= m THEN 1 ELSE IF score <= -m THEN -1 ELSE 0

\* the text fragments the polarity inputs are built from
W_granted == <<"g","r","a","n","t","e","d"," ">>
W_Denied  == <<"D","e","n","i","e","d"," ">>
W_cannot  == <<"c","a","n","n","o","t"," ">>
W_NO      == <<"N","O"," ">>
W_the     == <<"t","h","e"," ">>
W_avoid   == <<"a","v","o","i","d">>

Fragments == {W_granted, W_Denied, W_cannot, W_NO, W_the, W_avoid}

MaxFragments == 2
MaxMinHits == 2

PolarityTexts == {Flatten(ws) : ws \in SeqsUpTo(Fragments, MaxFragments)}

Copies == {"exhibit", "expanded", "inconsistency"}


\* the variables of the other components, while one component runs
IdlePolarity == text = <<>> /\ min_hits = 1 /\ signs = <<>>
IdleStore    == embeddings = <<>> /\ records = <<>>
IdleClusters ==
    /\ threshold = 0 /\ sims = <<>> /\ pairs = <<>> /\ pairIdx = 0
    /\ parent = <<>> /\ result = <<>> /\ prev = <<>> /\ pc = "idle"
IdleQuery    == qvec = <<>> /\ order = <<>> /\ hits = <<>>
IdleEdges    == allEdges = <<>> /\ edges = <<>>
IdleMerge    == sources = <<>> /\ outdir = <<>>
IdleFrames   == frames = <<>>
IdleRest     == pending = {} /\ args = <<>> /\ locals = <<>>

InitPolarity ==
    /\ text \in PolarityTexts
    /\ min_hits \in 1..MaxMinHits
    /\ signs = <<>>
    /\ IdleStore /\ IdleClusters /\ IdleQuery /\ IdleEdges /\ IdleMerge /\ IdleFrames
    /\ IdleRest
    /\ call = <<>>

\* analyze_exhibit_evidence.py: _polarity_sign(text, min_hits)
CallPolarityExhibit ==
    /\ "exhibit" \notin DOMAIN signs
    /\ signs' = signs @@ ("exhibit" :> PolaritySignExhibit(text, min_hits))
    /\ UNCHANGED <<text, min_hits, storeVars, clusterVars, queryVars, call, edgeVars,
                 mergeVars, frames,
                 restVars>>

\* build_expanded_visuals.py: _polarity_sign(text, min_hits)
CallPolarityExpanded ==
    /\ "expanded" \notin DOMAIN signs
    /\ signs' = signs @@ ("expanded" :> PolaritySignExpanded(text, min_hits))
    /\ UNCHANGED <<text, min_hits, storeVars, clusterVars, queryVars, call, edgeVars,
                 mergeVars, frames,
                 restVars>>

\* build_inconsistency_visuals.py: pos, neg = _polarity_counts(text);
\* _polarity_sign(pos, neg, min_hits)
CallPolarityInconsistency ==
    /\ "inconsistency" \notin DOMAIN signs
    /\ LET pn == PolarityCounts(text)
       IN  signs' = signs @@
                    ("inconsistency" :> PolaritySignCounts(pn[1], pn[2], min_hits))
    /\ UNCHANGED <<text, min_hits, storeVars, clusterVars, queryVars, call, edgeVars,
                 mergeVars, frames,
                 restVars>>

NextPolarity ==
    \/ CallPolarityExhibit
    \/ CallPolarityExpanded
    \/ CallPolarityInconsistency

SpecPolarity == InitPolarity /\ [][NextPolarity]_vars

\* the positions of s at which term occurs, letter case ignored
MatchPositions(s, term) ==
    {i \in 1..Len(s) :
        /\ i + Len(term) - 1 <= Len(s)
        /\ Lower(SubSeq(s, i, i + Len(term) - 1)) = term}

Occurrences(s, terms) ==
    SumSeq([k \in 1..Len(terms) |-> Cardinality(MatchPositions(s, terms[k]))])

ScoreOf(s) == Occurrences(s, AFFIRM_TERMS) - Occurrences(s, NEGATION_TERMS)

\* C8: with min_hits >= 1 every copy of _polarity_sign returns +1 exactly when
\* score = pos - neg is at least min_hits, -1 exactly when score is at most
\* -min_hits and 0 in every other case (pos and neg being the numbers of
\* case-insensitive occurrences of the affirmation and negation terms), so
\* the three outcomes exclude one another and the copies agree.
C8_PolarityRule ==
    LET score == ScoreOf(text)
    IN  \A c \in DOMAIN signs :
            /\ signs[c] \in {-1, 0, 1}
            /\ (signs[c] = 1) <=> (score >= min_hits)
            /\ (signs[c] = -1) <=> (score <= -min_hits)
            /\ (signs[c] = 0) <=> (score < min_hits /\ score > -min_hits)
            /\ \A d \in DOMAIN signs : signs[d] = signs[c]

\* all three copies have answered -1 for a text whose negation terms are
\* written in upper case
C8_Witness ==
    /\ DOMAIN signs = Copies
    /\ \A c \in Copies : signs[c] = -1
    /\ Lower(text) # text
    /\ min_hits = 2

-----------------------------------------------------------------------------
(* The store: unit-length embeddings and their dot products.               *)

\* the embedding rows a chunk can have: integer vectors of one common norm,
\* so that Dot(v, v) stands for cosine similarity 1.0
Vecs == {<<5, 0>>, <<4, 3>>, <<3, 4>>, <<-4, -3>>}

\* a row of embeddings @ embeddings.T, or embeddings @ qvec
Dot(u, v) == SumSeq([k \in 1..Len(u) |-> u[k] * v[k]])

One == Dot(<<5, 0>>, <<5, 0>>)

MaxChunks == 4

\* len(embeddings)
NumRows(emb) == Cardinality(DOMAIN emb)

Matrices(n) == [0..(n - 1) -> Vecs]

-----------------------------------------------------------------------------
(* Near-duplicate clustering: analyze_vector_store.py                      *)
(* _find_duplicate_clusters.                                               *)

\* sims = embeddings @ embeddings.T; np.fill_diagonal(sims, 0.0)
ZeroDiagonalSims(emb) ==
    [i \in DOMAIN emb |->
        [j \in DOMAIN emb |-> IF i = j THEN 0 ELSE Dot(emb[i], emb[j])]]

\* the cells of an n x n matrix in row-major order
Cells(n) == [k \in 1..(n * n) |-> <<(k - 1) \div n, (k - 1) % n>>]

\* a plausible slip: the comparison of np.argwhere is reversed
ArgwhereAtMost(m, t) ==
    SelectSeq(Cells(NumRows(m)), LAMBDA c : m[c[1]][c[2]] <= t)

\* a plausible slip: the threshold is clamped to the largest cosine, 1
ArgwhereClamped(m, t) ==
    SelectSeq(Cells(NumRows(m)), LAMBDA c : m[c[1]][c[2]] >= Min2(t, One))

\* pairs = np.argwhere(sims >= threshold): the qualifying cells, row-major
ArgwhereAtLeast(m, t) ==
    SelectSeq(Cells(NumRows(m)), LAMBDA c : m[c[1]][c[2]] >= t)

\* find(x) with its path halving: the root, and the parent list it leaves
RECURSIVE Find(_, _)
Find(par, x) ==
    IF par[x] = x
    THEN [root |-> x, parent |-> par]
    ELSE LET halved == [par EXCEPT ![x] = par[par[x]]]
         IN  Find(halved, halved[x])

\* a plausible slip: union links the elements, not their roots
UnionNoFind(par, a, b) == [par EXCEPT ![b] = a]

\* union(a, b): the parent list it leaves
Union(par, a, b) ==
    LET fa == Find(par, a)
        fb == Find(fa.parent, b)
    IN  IF fa.root # fb.root
        THEN [fb.parent EXCEPT ![fb.root] = fa.root]
        ELSE fb.parent

\* one iteration of "for i, j in pairs": skip unless i < j, else union(i, j)
LoopBody(par, p) == IF p[1] >= p[2] THEN par ELSE Union(par, p[1], p[2])

\* a plausible slip: the index is put in front of the members
SetDefaultPrepend(clusters, root, idx) ==
    IF \E k \in 1..Len(clusters) : clusters[k].root = root
    THEN [k \in 1..Len(clusters) |->
            IF clusters[k].root = root
            THEN [clusters[k] EXCEPT !.members = <<idx>> \o @]
            ELSE clusters[k]]
    ELSE Append(clusters, [root |-> root, members |-> <<idx>>])

\* clusters.setdefault(root, []).append(idx), clusters being a dict kept in
\* insertion order: a sequence of [root, members]
SetDefaultAppend(clusters, root, idx) ==
    IF \E k \in 1..Len(clusters) : clusters[k].root = root
    THEN [k \in 1..Len(clusters) |->
            IF clusters[k].root = root
            THEN [clusters[k] EXCEPT !.members = Append(@, idx)]
            ELSE clusters[k]]
    ELSE Append(clusters, [root |-> root, members |-> <<idx>>])

\* "for idx in range(len(embeddings))": the dict and the parent list it leaves
RECURSIVE GroupFrom(_, _, _, _)
GroupFrom(par, clusters, idx, n) ==
    IF idx >= n
    THEN [parent |-> par, clusters |-> clusters]
    ELSE LET f == Find(par, idx)
         IN  GroupFrom(f.parent, SetDefaultAppend(clusters, f.root, idx),
                       idx + 1, n)

\* a plausible slip: groups of one member are kept
KeepAllMembers(clusters) ==
    [k \in 1..Len(clusters) |-> clusters[k].members]

\* [members for members in clusters.values() if len(members) > 1]
KeepGroups(clusters) ==
    LET values == [k \in 1..Len(clusters) |-> clusters[k].members]
    IN  SelectSeq(values, LAMBDA members : Len(members) > 1)

\* a plausible slip: of equal keys the later one is placed first
RankDescLastFirst(keys, p) ==
    1 + Cardinality({q \in 1..Len(keys) :
                        keys[q] > keys[p] \/ (keys[q] = keys[p] /\ q > p)})

\* the place list.sort(reverse=True) gives position p of keys: the sort is
\* stable, equal keys keep their order
RankDesc(keys, p) ==
    1 + Cardinality({q \in 1..Len(keys) :
                        keys[q] > keys[p] \/ (keys[q] = keys[p] /\ q < p)})

\* list.sort(key=..., reverse=True), keys[p] being the key of s[p]
SortDesc(s, keys) ==
    [r \in 1..Len(s) |-> s[CHOOSE p \in 1..Len(s) : RankDesc(keys, p) = r]]

\* result.sort(key=len, reverse=True)
SortByLenDesc(s) == SortDesc(s, [p \in 1..Len(s) |-> Len(s[p])])

\* the thresholds a caller passes, in the unit of Dot: 0.0, 0.8, 0.96, 1.0
\* and 1.04
Thresholds == {0, 20, 24, One, One + 1}

InitClusters ==
    /\ \E n \in 0..MaxChunks : embeddings \in Matrices(n)
    /\ records = <<>>
    /\ IdlePolarity /\ IdleClusters /\ IdleQuery /\ IdleEdges /\ IdleMerge /\ IdleFrames
    /\ IdleRest
    /\ call = <<>>

\* _find_duplicate_clusters(embeddings, threshold) up to the for loop
StartFindClusters(t) ==
    /\ pc \in {"idle", "done"}
    /\ prev' = IF pc = "done"
               THEN <<[threshold |-> threshold, result |-> result]>>
               ELSE prev
    /\ threshold' = t
    /\ sims' = ZeroDiagonalSims(embeddings)
    /\ pairs' = ArgwhereAtLeast(sims', t)
    /\ parent' = [i \in DOMAIN embeddings |-> i]
    /\ pairIdx' = 0
    /\ result' = <<>>
    /\ pc' = "loop"
    /\ UNCHANGED <<polarityVars, storeVars, queryVars, call, edgeVars,
                 mergeVars, frames,
                 restVars>>

\* one iteration of "for i, j in pairs"
UnionStep ==
    /\ pc = "loop"
    /\ pairIdx < Len(pairs)
    /\ parent' = LoopBody(parent, pairs[pairIdx + 1])
    /\ pairIdx' = pairIdx + 1
    /\ UNCHANGED <<threshold, sims, pairs, result, prev, pc>>
    /\ UNCHANGED <<polarityVars, storeVars, queryVars, call, edgeVars,
                 mergeVars, frames,
                 restVars>>

\* after the loop: group by root, drop the groups of one, sort, return
GroupAndReturn ==
    /\ pc = "loop"
    /\ pairIdx = Len(pairs)
    /\ LET g == GroupFrom(parent, <<>>, 0, NumRows(embeddings))
       IN  /\ parent' = g.parent
           /\ result' = SortByLenDesc(KeepGroups(g.clusters))
    /\ pc' = "done"
    /\ UNCHANGED <<threshold, sims, pairs, pairIdx, prev>>
    /\ UNCHANGED <<polarityVars, storeVars, queryVars, call, edgeVars,
                 mergeVars, frames,
                 restVars>>

NextClusters ==
    \/ \E t \in Thresholds : StartFindClusters(t)
    \/ UnionStep
    \/ GroupAndReturn

SpecClusters == InitClusters /\ [][NextClusters]_vars

\* chunks i and j are distinct and their similarity reaches t
SimilarAtLeast(i, j, t) == i # j /\ Dot(embeddings[i], embeddings[j]) >= t

\* the chunks a chain of similar pairs links to a chunk of S
RECURSIVE Reach(_, _)
Reach(S, t) ==
    LET more == S \cup {j \in DOMAIN embeddings :
                           \E i \in S : SimilarAtLeast(i, j, t)}
    IN  IF more = S THEN S ELSE Reach(more, t)

Component(i, t) == Reach({i}, t)

ClusterSets(res) == {Range(res[k]) : k \in 1..Len(res)}

\* C1: when _find_duplicate_clusters returns, two distinct chunks are in one
\* returned cluster exactly when a chain of pairs of similarity >= threshold
\* links them, and every returned cluster is the whole connected set of each
\* of its members.
C1_ClustersAreComponents ==
    pc = "done" =>
        /\ \A i, j \in DOMAIN embeddings :
              i # j =>
                 ((\E c \in ClusterSets(result) : i \in c /\ j \in c)
                     <=> j \in Component(i, threshold))
        /\ \A c \in ClusterSets(result) :
              \A i \in c : c = Component(i, threshold)

\* a returned cluster holds two chunks whose own similarity is below the
\* threshold: they are linked through a third chunk only
C1_Witness ==
    /\ pc = "done"
    /\ \E c \in ClusterSets(result) :
          \E i, j \in c :
              i # j /\ Dot(embeddings[i], embeddings[j]) < threshold

\* C2: every returned cluster has at least two members, and a chunk no
\* other chunk is similar to is in no returned cluster, the zeroed diagonal
\* included.
C2_NoSingletonClusters ==
    pc = "done" =>
        /\ \A k \in 1..Len(result) : Len(result[k]) >= 2
        /\ \A i \in DOMAIN embeddings :
              (~ \E j \in DOMAIN embeddings : SimilarAtLeast(i, j, threshold))
                  => \A c \in ClusterSets(result) : i \notin c

\* the call has returned clusters, the zeroed diagonal qualified as pairs
\* (threshold 0), and some chunk without a similar chunk was left out
C2_Witness ==
    /\ pc = "done"
    /\ \E k \in 1..Len(pairs) : pairs[k][1] = pairs[k][2]
    /\ result # <<>>
    /\ \E i \in DOMAIN embeddings :
          ~ \E j \in DOMAIN embeddings : SimilarAtLeast(i, j, threshold)

\* every cluster of fine lies within a cluster of coarse
Refines(fine, coarse) ==
    \A c \in ClusterSets(fine) : \E d \in ClusterSets(coarse) : c \subseteq d

\* C3: of two calls on the same embeddings, every cluster returned at the
\* higher threshold is a subset of a cluster returned at the lower one.
C3_ThresholdMonotone ==
    (pc = "done" /\ prev # <<>>) =>
        /\ prev[1].threshold > threshold => Refines(prev[1].result, result)
        /\ threshold > prev[1].threshold => Refines(result, prev[1].result)

\* the call before ran at a higher threshold and found clusters, and this
\* call returned different ones
C3_Witness ==
    /\ pc = "done"
    /\ prev # <<>>
    /\ prev[1].threshold > threshold
    /\ prev[1].result # <<>>
    /\ ClusterSets(prev[1].result) # ClusterSets(result)

\* C14: a clustering call with threshold <= 0 is rejected at the call: it
\* never runs and never returns clusters
C14_NonPositiveThresholdRejected ==
    pc \in {"loop", "done"} => threshold > 0

MinMember(members) ==
    CHOOSE m \in Range(members) : \A x \in Range(members) : m <= x

RECURSIVE Follow(_, _, _)
Follow(par, x, k) == IF k = 0 THEN x ELSE Follow(par, par[x], k - 1)

\* every chain of parent links ends in an element that is its own parent
IsForest(par) ==
    \A x \in DOMAIN par :
        /\ par[x] \in DOMAIN par
        /\ LET r == Follow(par, x, Cardinality(DOMAIN par)) IN par[r] = r

\* the root of x in a forest, by following the links without writing
RootOf(par, x) == Follow(par, x, Cardinality(DOMAIN par))

\* the elements that share their root with x
SetOf(par, x) == {y \in DOMAIN par : RootOf(par, y) = RootOf(par, x)}

\* find(x) on par returns the root of x and its path halving leaves every
\* element its root
HalvingKeepsRoots(par) ==
    \A x \in DOMAIN par :
        LET f == Find(par, x)
        IN  /\ f.root = RootOf(par, x)
            /\ \A y \in DOMAIN par : RootOf(f.parent, y) = RootOf(par, y)

\* the step is one iteration of the loop over pairs
IsUnionStep == pc = "loop" /\ pc' = "loop" /\ pairIdx' = pairIdx + 1

\* the step is the grouping loop, which calls find on every index
IsGroupStep == pc = "loop" /\ pc' = "done"

\* C27: after every step of _find_duplicate_clusters the parent list is a
\* forest, so find terminates; find returns the root and its path halving
\* changes no element's root; an iteration that calls union(i, j) merges the
\* set of i with the set of j and leaves every other set as it was; an
\* iteration that skips its pair, and the grouping loop, change no set.
C27_ParentIsForest ==
    [][/\ IsForest(parent')
       /\ HalvingKeepsRoots(parent')
       /\ IsUnionStep =>
             LET p == pairs[pairIdx + 1]
                 merged == SetOf(parent, p[1]) \cup SetOf(parent, p[2])
             IN  \A x \in DOMAIN parent :
                    SetOf(parent', x) =
                        IF p[1] < p[2] /\ x \in merged
                        THEN merged ELSE SetOf(parent, x)
       /\ IsGroupStep =>
             \A x \in DOMAIN parent : RootOf(parent', x) = RootOf(parent, x)
      ]_vars

\* in the loop, a chain of two links: find on its lower end will halve it
C27_Witness ==
    /\ pc = "loop"
    /\ pairIdx < Len(pairs)
    /\ \E x \in DOMAIN parent :
          /\ parent[parent[x]] # parent[x]
          /\ x \in {pairs[pairIdx + 1][1], pairs[pairIdx + 1][2]}
          /\ pairs[pairIdx + 1][1] < pairs[pairIdx + 1][2]

\* C28: no chunk index is in two returned clusters or twice in one, every
\* member is an index of the store, and the members of each cluster ascend.
C28_ClustersDisjointAscending ==
    pc = "done" =>
        /\ \A k \in 1..Len(result) :
              /\ \A m \in 1..Len(result[k]) :
                    result[k][m] \in 0..(NumRows(embeddings) - 1)
              /\ \A m, n \in 1..Len(result[k]) :
                    m < n => result[k][m] < result[k][n]
        /\ \A k, l \in 1..Len(result) :
              k # l => Range(result[k]) \cap Range(result[l]) = {}

\* a returned cluster of three or more whose first member is not its root
C28_Witness ==
    /\ pc = "done"
    /\ \E k \in 1..Len(result) :
          /\ Len(result[k]) >= 3
          /\ parent[result[k][1]] # result[k][1]

-----------------------------------------------------------------------------
(* Top-k similarity queries: query_vector_store.py query_embeddings,       *)
(* analyze_vector_store.py _issue_search and the ranked slice of           *)
(* analyze_exhibit_evidence.py.                                            *)

MaxRows == 3
MaxTopK == 3

\* the rows and the metadata records of the stores that are queried
QueryRowVecs == {<<5, 0>>, <<4, 3>>, <<3, 4>>}
QueryMetadata ==
    { [source_pdf |-> "a.pdf", text |-> "t1"],
      [source_pdf |-> "b.pdf", text |-> "t2"] }

\* model.encode(queries, normalize_embeddings=True): one list of query
\* vectors per query_embeddings query (one vector) or per issue (its queries)
QueryLists == { <<(<<5, 0>>)>>, <<(<<5, 0>>), (<<3, 4>>)>> }

\* the callers of a ranked search
QueryImpls == {"query_embeddings", "issue_search", "ranked_slice"}

\* scores = embeddings @ qvec for one query vector;
\* scores = embeddings @ query_embeddings.T; best_scores = scores.max(axis=1)
\* for the queries of an issue
RECURSIVE MaxSeq(_)
MaxSeq(s) == IF Len(s) = 1 THEN s[1] ELSE Max2(s[1], MaxSeq(Tail(s)))

BestScores(emb, qs) ==
    [i \in DOMAIN emb |-> MaxSeq([k \in 1..Len(qs) |-> Dot(emb[i], qs[k])])]

\* np.argsort(-scores) with the default kind ("quicksort"), which is not a
\* stable sort: every order of the indices by non-increasing score is an
\* outcome, equal scores in either order
Argsorts(scores) ==
    LET n == Cardinality(DOMAIN scores)
    IN  {o \in [1..n -> DOMAIN scores] :
            /\ \A a, b \in 1..n : a # b => o[a] # o[b]
            /\ \A a \in 1..(n - 1) : scores[o[a]] >= scores[o[a + 1]]}

\* np.argsort(scores)[-top_k:]: the last top_k of the ascending order
PySliceLast(s, k) ==
    LET asc == [r \in 1..Len(s) |-> s[Len(s) + 1 - r]]
    IN  SubSeq(asc, Max2(Len(s) - k, 0) + 1, Len(s))

\* s[:k] of a Python sequence
PySliceTo(s, k) ==
    IF k >= 0 THEN SubSeq(s, 1, Min2(k, Len(s)))
              ELSE SubSeq(s, 1, Max2(Len(s) + k, 0))

Hit(scores, idx) == [idx |-> idx, score |-> scores[idx]]

\* query_embeddings: "for rank in order", from position r of order
RECURSIVE QueryLoop(_, _, _, _, _, _, _, _)
QueryLoop(ord, r, seen, out, recs, scores, top_k, dedupe) ==
    IF r > Len(ord) THEN out
    ELSE LET rank == ord[r]
             record == recs[rank]
             key == IF dedupe THEN <<record.source_pdf>>
                              ELSE <<record.source_pdf, rank>>
         IN  IF dedupe /\ key \in seen
             THEN QueryLoop(ord, r + 1, seen, out, recs, scores, top_k, dedupe)
             ELSE LET out2 == Append(out, Hit(scores, rank))
                  IN  IF Len(out2) >= top_k THEN out2
                      ELSE QueryLoop(ord, r + 1, seen \cup {key}, out2,
                                     recs, scores, top_k, dedupe)

\* _issue_search: "for idx in ranked", from position r of ranked
RECURSIVE IssueLoop(_, _, _, _, _, _, _)
IssueLoop(ranked, r, seen, picks, recs, scores, top_k) ==
    IF r > Len(ranked) THEN picks
    ELSE LET idx == ranked[r]
             txt == recs[idx].text
         IN  IF txt \in seen
             THEN IssueLoop(ranked, r + 1, seen, picks, recs, scores, top_k)
             ELSE LET picks2 == Append(picks, Hit(scores, idx))
                  IN  IF Len(picks2) >= top_k THEN picks2
                      ELSE IssueLoop(ranked, r + 1, seen \cup {txt}, picks2,
                                     recs, scores, top_k)

\* a plausible slip: the last top_k of the ascending order are taken
RankedSliceLast(ord, top_k) == PySliceLast(ord, top_k)

\* ranked = np.argsort(-scores)[:top_k]
RankedSlice(ord, top_k) == PySliceTo(ord, top_k)

\* the hits of one query of each caller
TopKHits(impl, dedupe, ord, recs, scores, top_k) ==
    CASE impl = "query_embeddings" ->
            QueryLoop(ord, 1, {}, <<>>, recs, scores, top_k, dedupe)
      [] impl = "issue_search" ->
            IssueLoop(ord, 1, {}, <<>>, recs, scores, top_k)
      [] impl = "ranked_slice" ->
            LET ranked == RankedSlice(ord, top_k)
            IN  [r \in 1..Len(ranked) |-> Hit(scores, ranked[r])]

\* query_embeddings: "if embeddings.size == 0: raise RuntimeError(...)";
\* the other callers have no such test
QueryRaises(impl, emb) == impl = "query_embeddings" /\ NumRows(emb) = 0

\* a loaded store, the query vectors, and the order the build's argsort
\* gives for their scores
InitTopK ==
    /\ \E n \in 0..MaxRows :
          /\ embeddings \in [0..(n - 1) -> QueryRowVecs]
          /\ records \in [0..(n - 1) -> QueryMetadata]
    /\ qvec \in QueryLists
    /\ order \in Argsorts(BestScores(embeddings, qvec))
    /\ \E impl \in QueryImpls, dedupe \in BOOLEAN :
          /\ impl # "query_embeddings" => dedupe = (impl = "issue_search")
          /\ impl # "issue_search" => Len(qvec) = 1
          /\ call = [impl |-> impl, dedupe |-> dedupe, top_k |-> 0,
                     prev_top_k |-> 0, prev_hits |-> <<>>, raised |-> ""]
    /\ hits = <<>>
    /\ IdlePolarity /\ IdleClusters /\ IdleEdges /\ IdleMerge /\ IdleFrames
    /\ IdleRest

\* one query with top_k = k; the call before is remembered
TopKQuery(k) ==
    /\ hits' = IF QueryRaises(call.impl, embeddings) THEN <<>>
               ELSE TopKHits(call.impl, call.dedupe, order, records,
                             BestScores(embeddings, qvec), k)
    /\ call' = [call EXCEPT !.top_k = k, !.prev_top_k = call.top_k,
                            !.prev_hits = hits,
                            !.raised = IF QueryRaises(call.impl, embeddings)
                                       THEN "RuntimeError" ELSE ""]
    /\ UNCHANGED <<polarityVars, storeVars, clusterVars, qvec, order, edgeVars,
                 mergeVars, frames,
                 restVars>>

NextTopK == \E k \in 1..MaxTopK : TopKQuery(k)

SpecTopK == InitTopK /\ [][NextTopK]_vars

IsPrefix(s, t) == Len(s) <= Len(t) /\ SubSeq(t, 1, Len(s)) = s

\* C9: a top-k query returns its hits in non-increasing score order, and of
\* two hits with equal scores the one with the lower index comes first.
C9_StableRanking ==
    call.top_k > 0 =>
        \A a, b \in 1..Len(hits) :
            a < b =>
               /\ hits[a].score >= hits[b].score
               /\ hits[a].score = hits[b].score => hits[a].idx < hits[b].idx

\* C10: of two queries on the same store with the same query, the hits for
\* the smaller top_k are a prefix of the hits for the larger one.
C10_TopKPrefix ==
    (call.top_k > 0 /\ call.prev_top_k > 0) =>
        /\ call.prev_top_k < call.top_k => IsPrefix(call.prev_hits, hits)
        /\ call.top_k < call.prev_top_k => IsPrefix(hits, call.prev_hits)

\* a deduplicating query returned more hits than the one before, which had
\* the smaller top_k, and skipped a chunk whose key was already seen
C10_Witness ==
    /\ call.prev_top_k > 0
    /\ call.prev_top_k < call.top_k
    /\ call.dedupe
    /\ Len(call.prev_hits) < Len(hits)
    /\ \E a \in 1..Len(hits) : hits[a].idx # order[a]

\* the key a caller deduplicates a chunk by: the document, the text, or
\* the chunk itself when it does not deduplicate
HitKey(i) ==
    CASE call.impl = "query_embeddings" /\ call.dedupe -> <<records[i].source_pdf>>
      [] call.impl = "issue_search" -> <<records[i].text>>
      [] OTHER -> <<i>>

\* C11: for any top_k >= 1 a query over a store of N chunks raises no error
\* and returns at most top_k hits, at most N; when top_k exceeds N it
\* returns every available hit: each chunk is returned or is a duplicate of
\* a returned one
C11_TopKBounded ==
    call.top_k > 0 =>
        /\ call.raised = ""
        /\ Len(hits) <= call.top_k
        /\ Len(hits) <= NumRows(embeddings)
        /\ call.top_k > NumRows(embeddings) =>
              \A i \in DOMAIN embeddings :
                  \E a \in 1..Len(hits) : HitKey(hits[a].idx) = HitKey(i)

-----------------------------------------------------------------------------
(* Contradiction pairing: analyze_exhibit_evidence.py _find_contradictions, *)
(* build_expanded_visuals.py _find_contradictions and                      *)
(* build_inconsistency_visuals.py _build_contradictions.                   *)

\* re.search of a literal, letter case ignored: s holds lit somewhere
Contains(s, lit) ==
    \E i \in 1..Len(s) :
        /\ i + Len(lit) - 1 <= Len(s)
        /\ Lower(SubSeq(s, i, i + Len(lit) - 1)) = lit

\* \w of the regular expressions, on the characters of the model
IsWordChar(c) == c \in (DOMAIN LowerMap \cup Range(LowerMap))

\* re.search of \blit\b, letter case ignored
ContainsWord(s, lit) ==
    \E i \in 1..Len(s) :
        /\ i + Len(lit) - 1 <= Len(s)
        /\ Lower(SubSeq(s, i, i + Len(lit) - 1)) = lit
        /\ (i = 1 \/ ~IsWordChar(s[i - 1]))
        /\ (i + Len(lit) - 1 = Len(s) \/ ~IsWordChar(s[i + Len(lit)]))

\* AFFIDAVIT_PATTERN: the alternatives between \b...\b, and the bare ones
AFFIDAVIT_WORDS ==
  << <<"a","f","f","i","d","a","v","i","t">>,
     <<"s","w","o","r","n">> >>
AFFIDAVIT_LITERALS ==
  << <<"u","n","d","e","r"," ","p","e","n","a","l","t","y"," ","o","f"," ","p","e","r","j","u","r","y">>,
     <<"d","e","c","l","a","r","a","t","i","o","n">>,
     <<"v","e","r","i","f","i","e","d">>,
     <<"j","u","r","a","t">> >>

\* FILING_PATTERN: every alternative is between \b...\b
FILING_WORDS ==
  << <<"p","e","t","i","t","i","o","n">>,
     <<"a","p","p","l","i","c","a","t","i","o","n">>,
     <<"m","o","t","i","o","n">>,
     <<"n","o","t","i","c","e">>,
     <<"r","e","s","p","o","n","s","e">>,
     <<"a","n","s","w","e","r">>,
     <<"c","o","u","n","t","e","r","p","e","t","i","t","i","o","n">>,
     <<"s","t","a","t","e","m","e","n","t"," ","o","f"," ","i","n","a","b","i","l","i","t","y">> >>

\* FILING_INCLUDE and FILING_EXCLUDE of analyze_exhibit_evidence.py
FILING_INCLUDE ==
  << <<"p","e","t","i","t","i","o","n">>,
     <<"a","p","p","l","i","c","a","t","i","o","n"," ","f","o","r"," ","p","r","o","t","e","c","t","i","v","e"," ","o","r","d","e","r">>,
     <<"s","t","a","t","e","m","e","n","t"," ","o","f"," ","i","n","a","b","i","l","i","t","y">> >>
FILING_EXCLUDE ==
  << <<"r","e","s","p","o","n","d","e","n","t">>,
     <<"r","e","s","p","o","n","s","e">>,
     <<"o","b","j","e","c","t","i","o","n">>,
     <<"t","e","m","p","o","r","a","r","y"," ","o","r","d","e","r","s">>,
     <<"e","x"," ","p","a","r","t","e">>,
     <<"e","x","h","i","b","i","t">> >>

EXHIBIT_LITERAL == <<"e","x","h","i","b","i","t">>

AnyOf(s, lits, Search(_, _)) == \E k \in 1..Len(lits) : Search(s, lits[k])

\* AFFIDAVIT_PATTERN.search(record.get("text", ""))
MatchesAffidavit(t) ==
    AnyOf(t, AFFIDAVIT_WORDS, ContainsWord) \/ AnyOf(t, AFFIDAVIT_LITERALS, Contains)

\* FILING_PATTERN.search(record.get("text", ""))
MatchesFiling(t) == AnyOf(t, FILING_WORDS, ContainsWord)

\* "exhibit" in str(record.get("source_pdf", "")).lower()
IsExhibitSource(src) == Contains(src, EXHIBIT_LITERAL)

\* FILING_INCLUDE.search(source_pdf) and not FILING_EXCLUDE.search(source_pdf)
IsFilingSource(src) ==
    AnyOf(src, FILING_INCLUDE, Contains) /\ ~AnyOf(src, FILING_EXCLUDE, Contains)

\* Path(source_pdf).stem, the label a document's chunks are grouped under
\* (_clean_label changes none of the names of the model)
DocLabel(src) ==
    LET dots == {i \in 1..Len(src) : src[i] = "."}
    IN  IF dots = {} THEN src
        ELSE SubSeq(src, 1, (CHOOSE i \in dots : \A j \in dots : j <= i) - 1)

\* the chunk texts and source names of the stores that are paired
T_affPos == <<"s","w","o","r","n"," ","g","r","a","n","t","e","d">>
T_filNeg == <<"M","o","t","i","o","n"," ","d","e","n","i","e","d">>
T_bothNeg == <<"s","w","o","r","n"," ","m","o","t","i","o","n"," ","n","e","v","e","r"," ","d","e","n","i","e","d">>
T_bothPos == <<"s","w","o","r","n"," ","m","o","t","i","o","n"," ","g","r","a","n","t","e","d">>
S_exhibit == <<"E","x","h","i","b","i","t"," ","A",".","p","d","f">>
S_petition == <<"P","e","t","i","t","i","o","n",".","p","d","f">>

EdgeTexts == {T_affPos, T_filNeg, T_bothNeg, T_bothPos}
EdgeSources == {S_exhibit, S_petition}
EdgeVecs == {<<5, 0>>, <<4, 3>>}
MinHitsSet == 1..MaxMinHits

\* what the searches and the polarity functions give on these texts and
\* names
AffidavitText == [t \in EdgeTexts |-> MatchesAffidavit(t)]
FilingText    == [t \in EdgeTexts |-> MatchesFiling(t)]
ExhibitSource == [x \in EdgeSources |-> IsExhibitSource(x)]
FilingSource  == [x \in EdgeSources |-> IsFilingSource(x)]
LabelOf       == [x \in EdgeSources |-> DocLabel(x)]
SignExhibit   == [t \in EdgeTexts, m \in MinHitsSet |-> PolaritySignExhibit(t, m)]
SignExpanded  == [t \in EdgeTexts, m \in MinHitsSet |-> PolaritySignExpanded(t, m)]
CountsOf      == [t \in EdgeTexts |-> PolarityCounts(t)]

\* the characters _normalize_ascii rewrites (NON_ASCII_MAP), named by their
\* code points, and the ones it keeps
NON_ASCII_MAP ==
    ("U+2018" :> <<"'">>) @@ ("U+2019" :> <<"'">>) @@ ("U+2013" :> <<"-">>) @@
    ("U+2014" :> <<"-", "-">>) @@ ("U+00A0" :> <<" ">>) @@ ("U+00AD" :> <<>>)

AsciiChars ==
    DOMAIN LowerMap \cup Range(LowerMap) \cup {" ", ".", "'", "-", ":", ","}

\* _normalize_ascii: text.translate(NON_ASCII_MAP), then the characters
\* that are not ASCII are dropped
NormalizeAscii(t) ==
    LET translated ==
            Flatten([i \in 1..Len(t) |->
                        IF t[i] \in DOMAIN NON_ASCII_MAP
                        THEN NON_ASCII_MAP[t[i]] ELSE <<t[i]>>])
    IN  SelectSeq(translated, LAMBDA c : c \in AsciiChars)

CountsOfNormalized ==
    [t \in EdgeTexts |-> PolarityCounts(NormalizeAscii(t))]

\* round(score, 4): score counts 1/One, the result counts 1/10000
Round4(score) == (2 * 10000 * score + One) \div (2 * One)

\* [idx for idx, record in enumerate(records) if P(record)]
IndicesWhere(recs, P(_)) ==
    SelectSeq([k \in 1..Cardinality(DOMAIN recs) |-> k - 1],
              LAMBDA idx : P(recs[idx]))

\* sims[i]: the scores of row vector v against the rows cols of emb
RowScores(emb, v, cols) ==
    [pos \in 0..(Len(cols) - 1) |-> Dot(v, emb[cols[pos + 1]])]

\* the lists a loop over rows can build when each row appends one of the
\* lists in rowSets[i]
RECURSIVE Outcomes(_)
Outcomes(rowSets) ==
    IF rowSets = <<>> THEN {<<>>}
    ELSE {r \o rest : r \in Head(rowSets), rest \in Outcomes(Tail(rowSets))}

\* a plausible slip: the filter on the polarity signs lets equal signs pass
SameSignSkipsZeroOnly(sa, sb) == sb = 0

\* "if fil_sign == 0 or ex_sign * fil_sign >= 0: continue"
SameSignSkips(sa, sb) == sb = 0 \/ sa * sb >= 0

\* analyze_exhibit_evidence.py _find_contradictions: the inner loop
\* "for pos in ranked" of one exhibit chunk, the edges it appends
ExhibitRow(emb, recs, ex_idx, filing_indices, ord, thr, mh, top_k) ==
    LET ex_sign == SignExhibit[recs[ex_idx].text, mh]
        scores == RowScores(emb, emb[ex_idx], filing_indices)
        ranked == RankedSlice(ord, top_k)
        kept == SelectSeq(ranked, LAMBDA pos :
                    LET fil_idx == filing_indices[pos + 1]
                        fil_sign == SignExhibit[recs[fil_idx].text, mh]
                    IN  /\ ~SameSignSkips(ex_sign, fil_sign)
                        /\ ~(scores[pos] < thr))
    IN  IF ex_sign = 0 THEN <<>>
        ELSE [k \in 1..Len(kept) |->
                [a |-> ex_idx, b |-> filing_indices[kept[k] + 1],
                 similarity |-> Round4(scores[kept[k]])]]

\* contradictions.sort(key=lambda item: item["similarity"], reverse=True)
SortBySimilarity(es) == SortDesc(es, [p \in 1..Len(es) |-> es[p].similarity])

\* analyze_exhibit_evidence.py _find_contradictions: the lists it can hold
\* before the sort, one for each choice of np.argsort(-scores) per exhibit
ExhibitContradictions(emb, recs, thr, mh, top_k) ==
    LET exhibit_indices ==
            IndicesWhere(recs, LAMBDA r : ExhibitSource[r.source_pdf])
        filing_indices ==
            IndicesWhere(recs, LAMBDA r : FilingSource[r.source_pdf])
    IN  IF exhibit_indices = <<>> \/ filing_indices = <<>> THEN {<<>>}
        ELSE Outcomes([i \in 1..Len(exhibit_indices) |->
                {ExhibitRow(emb, recs, exhibit_indices[i], filing_indices,
                            ord, thr, mh, top_k) :
                 ord \in Argsorts(RowScores(emb, emb[exhibit_indices[i]],
                                            filing_indices))}])

\* a plausible slip: the symmetric-pair filter is left out
VectorIdSkipsNever(fil_vid, aff_vid) == FALSE

\* "if records[fil_idx].get("vector_id", fil_idx) >=
\* records[aff_idx].get("vector_id", aff_idx): continue"
VectorIdSkips(fil_vid, aff_vid) == fil_vid >= aff_vid

\* build_expanded_visuals.py _find_contradictions: the inner loop
\* "for pos in ranked" of one affidavit chunk, the edges it appends
ExpandedRow(emb, recs, aff_idx, filing_indices, ord, thr, mh, top_k) ==
    LET aff_sign == SignExpanded[recs[aff_idx].text, mh]
        scores == RowScores(emb, emb[aff_idx], filing_indices)
        ranked == RankedSlice(ord, top_k)
        kept == SelectSeq(ranked, LAMBDA pos :
                    LET fil_idx == filing_indices[pos + 1]
                        fil_sign == SignExpanded[recs[fil_idx].text, mh]
                    IN  /\ ~VectorIdSkips(recs[fil_idx].vector_id,
                                          recs[aff_idx].vector_id)
                        /\ ~SameSignSkips(aff_sign, fil_sign)
                        /\ ~(scores[pos] < thr))
    IN  IF aff_sign = 0 THEN <<>>
        ELSE [k \in 1..Len(kept) |->
                [a |-> aff_idx, b |-> filing_indices[kept[k] + 1],
                 similarity |-> Round4(scores[kept[k]])]]

\* build_expanded_visuals.py _find_contradictions: the lists it can hold
\* before the sort, one for each choice of np.argsort(-scores) per affidavit
ExpandedContradictions(emb, recs, thr, mh, top_k) ==
    LET affidavit_indices ==
            IndicesWhere(recs, LAMBDA r : AffidavitText[r.text])
        filing_indices ==
            IndicesWhere(recs, LAMBDA r : FilingText[r.text])
    IN  IF affidavit_indices = <<>> \/ filing_indices = <<>> THEN {<<>>}
        ELSE Outcomes([i \in 1..Len(affidavit_indices) |->
                {ExpandedRow(emb, recs, affidavit_indices[i], filing_indices,
                             ord, thr, mh, top_k) :
                 ord \in Argsorts(RowScores(emb, emb[affidavit_indices[i]],
                                            filing_indices))}])

\* a plausible slip: the list is cut to max_edges without being sorted
TruncateUnsorted(es, max_edges) == PySliceTo(es, max_edges)

\* edges.sort(key=..., reverse=True); return edges[:max_edges]
SortAndTruncate(es, max_edges) == PySliceTo(SortBySimilarity(es), max_edges)

\* _unit_vector and the dot product of two vectors it has normalised, in
\* units of 1/One
Norm(v) == CHOOSE r \in 0..Dot(v, v) : r * r = Dot(v, v)
UnitDot(u, v) == (Dot(u, v) * One) \div (Norm(u) * Norm(v))

\* "ranked = sorted(range(len(candidates)), key=lambda i: strengths[i],
\* reverse=True); keep = set(ranked[:max_candidates]); candidates =
\* [candidates[i] for i in range(len(candidates)) if i in keep]": the
\* candidates are distinct, so they stand for their positions
StrongestCandidates(cand_indices, strengths, max_candidates) ==
    SelectSeq(cand_indices, LAMBDA idx :
        idx \in Range(PySliceTo(SortDesc(cand_indices, strengths),
                                max_candidates)))

\* a plausible slip: min_polarity_hits is not passed on, one hit decides
SignIgnoringMinHits(t, mh) ==
    PolaritySignCounts(CountsOfNormalized[t][1], CountsOfNormalized[t][2], 1)

\* the polarity sign build_inconsistency_visuals.py gives a chunk: the
\* counts of its normalised text under min_polarity_hits
SignInconsistency(t, mh) ==
    PolaritySignCounts(CountsOfNormalized[t][1], CountsOfNormalized[t][2], mh)

\* build_inconsistency_visuals.py _build_contradictions: the candidates,
\* the chunks of nonzero sign, cut to the max_candidates strongest
Candidates(recs, mh, max_candidates) ==
    LET cand_indices == IndicesWhere(recs, LAMBDA r :
                            SignInconsistency(r.text, mh) # 0)
        strength(t) ==
            IF CountsOfNormalized[t][1] >= CountsOfNormalized[t][2]
            THEN CountsOfNormalized[t][1] - CountsOfNormalized[t][2]
            ELSE CountsOfNormalized[t][2] - CountsOfNormalized[t][1]
    IN  IF Len(cand_indices) > max_candidates
        THEN StrongestCandidates(cand_indices,
                 [k \in 1..Len(cand_indices) |->
                     strength(recs[cand_indices[k]].text)],
                 max_candidates)
        ELSE cand_indices

\* "if doc_labels[i] == doc_labels[j]: continue"
SameDocSkips(la, lb) == la = lb

\* build_inconsistency_visuals.py _build_contradictions: the double loop
\* "for i in range(len(cand_indices)): for j in range(i + 1, ...)" over the
\* candidates, the (i, j, score) it appends
CandidatePairs(emb, recs, cand_indices, thr, mh) ==
    LET n == Len(cand_indices)
        sign(k) == SignInconsistency(recs[cand_indices[k]].text, mh)
        label(k) == LabelOf[recs[cand_indices[k]].source_pdf]
        sim(i, j) == UnitDot(emb[cand_indices[i]], emb[cand_indices[j]])
        kept == SelectSeq(
                    [c \in 1..(n * n) |->
                        <<((c - 1) \div n) + 1, ((c - 1) % n) + 1>>],
                    LAMBDA c :
                        /\ c[1] < c[2]
                        /\ ~SameDocSkips(label(c[1]), label(c[2]))
                        /\ ~(sign(c[1]) = 0 \/ sign(c[2]) = 0)
                        /\ ~(sign(c[1]) * sign(c[2]) > 0)
                        /\ ~(sim(c[1], c[2]) < thr))
    IN  [k \in 1..Len(kept) |->
            [a |-> cand_indices[kept[k][1]], b |-> cand_indices[kept[k][2]],
             similarity |-> sim(kept[k][1], kept[k][2])]]

\* build_inconsistency_visuals.py _build_contradictions: the edges list
\* before the sort
InconsistencyEdges(emb, recs, thr, mh, max_candidates) ==
    CandidatePairs(emb, recs, Candidates(recs, mh, max_candidates), thr, mh)

\* edge_rows: "score": round(score, 4) of the edges kept
RoundScores(es) ==
    [k \in 1..Len(es) |-> [es[k] EXCEPT !.similarity = Round4(@)]]

\* the parameters the callers pass: similarity threshold 0.8 or 0.96,
\* top_k (argparse takes any integer), max_edges and max_candidates
EdgeThresholds == {20, 24}
EdgeTopKs == {-1, 1, 2}
EdgeMaxEdges == {1, 2}
EdgeMaxCandidates == {2, 3}

\* the chunks a store is made of: a document name and a text
EdgeChunks ==
    {[source_pdf |-> S_exhibit,  text |-> T_bothPos],
     [source_pdf |-> S_exhibit,  text |-> T_bothNeg],
     [source_pdf |-> S_petition, text |-> T_affPos],
     [source_pdf |-> S_petition, text |-> T_filNeg]}

\* metadata.jsonl as the vectorizer writes it: vector_id is the row number
StoreRecords(n) ==
    {[i \in 0..(n - 1) |->
        [source_pdf |-> f[i].source_pdf, text |-> f[i].text, vector_id |-> i]] :
     f \in [0..(n - 1) -> EdgeChunks]}

NoCall ==
    [impl |-> "none", similarity_threshold |-> 0, min_polarity_hits |-> 0,
     top_k |-> 0, max_edges |-> 0, max_candidates |-> 0]

InitEdges ==
    /\ \E n \in 0..MaxRows :
          /\ embeddings \in [0..(n - 1) -> EdgeVecs]
          /\ records \in StoreRecords(n)
    /\ call = NoCall
    /\ allEdges = <<>> /\ edges = <<>>
    /\ IdlePolarity /\ IdleClusters /\ IdleQuery /\ IdleMerge /\ IdleFrames
    /\ IdleRest

\* analyze_exhibit_evidence.py _find_contradictions(embeddings, records,
\* similarity_threshold, min_polarity_hits, top_k)
FindContradictionsExhibit(thr, mh, k) ==
    /\ call.impl = "none"
    /\ allEdges' \in ExhibitContradictions(embeddings, records, thr, mh, k)
    /\ edges' = SortBySimilarity(allEdges')
    /\ call' = [NoCall EXCEPT !.impl = "exhibit", !.similarity_threshold = thr,
                              !.min_polarity_hits = mh, !.top_k = k]
    /\ UNCHANGED <<polarityVars, storeVars, clusterVars, queryVars,
                 mergeVars, frames,
                 restVars>>

\* build_expanded_visuals.py _find_contradictions(embeddings, records,
\* similarity_threshold, min_polarity_hits, top_k, max_edges)
FindContradictionsExpanded(thr, mh, k, me) ==
    /\ call.impl = "none"
    /\ allEdges' \in ExpandedContradictions(embeddings, records, thr, mh, k)
    /\ edges' = SortAndTruncate(allEdges', me)
    /\ call' = [NoCall EXCEPT !.impl = "expanded", !.similarity_threshold = thr,
                              !.min_polarity_hits = mh, !.top_k = k,
                              !.max_edges = me]
    /\ UNCHANGED <<polarityVars, storeVars, clusterVars, queryVars,
                 mergeVars, frames,
                 restVars>>

\* build_inconsistency_visuals.py _build_contradictions(embeddings, records,
\* docs, min_polarity_hits, max_candidates, similarity_threshold, max_edges)
BuildContradictions(thr, mh, mc, me) ==
    /\ call.impl = "none"
    /\ allEdges' = RoundScores(InconsistencyEdges(embeddings, records, thr, mh, mc))
    /\ edges' = RoundScores(SortAndTruncate(
                    InconsistencyEdges(embeddings, records, thr, mh, mc), me))
    /\ call' = [NoCall EXCEPT !.impl = "inconsistency",
                              !.similarity_threshold = thr,
                              !.min_polarity_hits = mh,
                              !.max_candidates = mc, !.max_edges = me]
    /\ UNCHANGED <<polarityVars, storeVars, clusterVars, queryVars,
                 mergeVars, frames,
                 restVars>>

NextEdges ==
    \/ \E thr \in EdgeThresholds, mh \in MinHitsSet, k \in EdgeTopKs :
          FindContradictionsExhibit(thr, mh, k)
    \/ \E thr \in EdgeThresholds, mh \in MinHitsSet, k \in EdgeTopKs,
          me \in EdgeMaxEdges :
          FindContradictionsExpanded(thr, mh, k, me)
    \/ \E thr \in EdgeThresholds, mh \in MinHitsSet, mc \in EdgeMaxCandidates,
          me \in EdgeMaxEdges :
          BuildContradictions(thr, mh, mc, me)

SpecEdges == InitEdges /\ [][NextEdges]_vars

\* the chunks of the store, the polarity sign the finished call gives a
\* chunk under its min_polarity_hits, and the cosine similarity of two chunks
\* (every embedding of the model has the same norm)
ChunkIds == DOMAIN records
SignOfChunk(i) == SignExhibit[records[i].text, call.min_polarity_hits]
Similarity(i, j) == Dot(embeddings[i], embeddings[j])
EdgeSet(es) == {{es[k].a, es[k].b} : k \in 1..Len(es)}

\* the category of a chunk: exhibit or filing by its document name
\* (analyze_exhibit_evidence.py), the document itself
\* (build_inconsistency_visuals.py)
CategoryOf(i) ==
    IF call.impl = "exhibit"
    THEN <<ExhibitSource[records[i].source_pdf],
           FilingSource[records[i].source_pdf]>>
    ELSE <<LabelOf[records[i].source_pdf]>>

\* C4: every edge returned by the contradiction search joins two chunks of
\* nonzero, strictly opposite polarity whose similarity is at least the
\* threshold, and, in the implementations that pair by document
\* (analyze_exhibit_evidence.py, build_inconsistency_visuals.py), of
\* different categories; a pair of equal signs or with a zero sign is never
\* returned
C4_EdgesAreContradictions ==
    call.impl # "none" =>
        \A k \in 1..Len(edges) :
            LET A == edges[k].a
                B == edges[k].b
            IN  /\ A \in ChunkIds /\ B \in ChunkIds
                /\ SignOfChunk(A) # 0 /\ SignOfChunk(B) # 0
                /\ SignOfChunk(A) * SignOfChunk(B) < 0
                /\ Similarity(A, B) >= call.similarity_threshold
                /\ call.impl \in {"exhibit", "inconsistency"} =>
                      CategoryOf(A) # CategoryOf(B)

\* an exhibit search that returned an edge and left out an exhibit and a
\* filing of the same nonzero sign and of similarity 1
C4_Witness ==
    /\ call.impl = "exhibit"
    /\ edges # <<>>
    /\ \E i, j \in ChunkIds :
          /\ ExhibitSource[records[i].source_pdf]
          /\ FilingSource[records[j].source_pdf]
          /\ SignOfChunk(i) # 0 /\ SignOfChunk(i) = SignOfChunk(j)
          /\ Similarity(i, j) = One
          /\ {i, j} \notin EdgeSet(edges)

\* the chunks the search starts from and the chunks it ranks against them
RowChunks ==
    IF call.impl = "exhibit"
    THEN {i \in ChunkIds : ExhibitSource[records[i].source_pdf]}
    ELSE {i \in ChunkIds : AffidavitText[records[i].text]}
ColChunks ==
    IF call.impl = "exhibit"
    THEN {i \in ChunkIds : FilingSource[records[i].source_pdf]}
    ELSE {i \in ChunkIds : FilingText[records[i].text]}

\* B is among the top_k most similar of the ranked chunks to A whatever the
\* order of equal scores: fewer than top_k others score as high
SurelyInTopK(A, B) ==
    Cardinality({C \in ColChunks \ {B} : Similarity(A, C) >= Similarity(A, B)})
        < call.top_k

\* C5: completeness: for every chunk A the search starts from and every
\* chunk B it ranks that is among A's top_k most similar, has nonzero
\* polarity opposite to A's and similarity at least the threshold, the pair
\* {A, B} is in the result before the truncation to max_edges
C5_Completeness ==
    call.impl \in {"exhibit", "expanded"} =>
        \A A \in RowChunks, B \in ColChunks :
            (/\ A # B
             /\ SignOfChunk(A) # 0 /\ SignOfChunk(B) # 0
             /\ SignOfChunk(A) * SignOfChunk(B) < 0
             /\ Similarity(A, B) >= call.similarity_threshold
             /\ SurelyInTopK(A, B))
            => {A, B} \in EdgeSet(allEdges)

\* C6: the returned edge list holds each unordered pair of chunks at most
\* once: never (A,B) and (B,A), never a pair twice, never a chunk with
\* itself, also when a chunk is in both candidate sets
C6_PairsOnce ==
    call.impl # "none" =>
        /\ \A k \in 1..Len(edges) : edges[k].a # edges[k].b
        /\ \A k1, k2 \in 1..Len(edges) :
              k1 # k2 => {edges[k1].a, edges[k1].b} # {edges[k2].a, edges[k2].b}

\* a build_expanded_visuals.py search that returned an edge between two
\* chunks that each match both the affidavit and the filing pattern
C6_Witness ==
    /\ call.impl = "expanded"
    /\ \E k \in 1..Len(edges) :
          \A i \in {edges[k].a, edges[k].b} :
              AffidavitText[records[i].text] /\ FilingText[records[i].text]

C15_TopKValidated ==
    call.impl \in {"exhibit", "expanded"} => call.top_k >= 1

-----------------------------------------------------------------------------
(* Building stores from stores: merge_vector_stores.py merge_stores,       *)
(* vectorize_case_docs.py merge_vector_stores,                             *)
(* build_inconsistency_visuals.py _subset_by_docs, and the size test of    *)
(* query_vector_store.py main.  An embedding matrix is the sequence of its *)
(* rows, a row being named by the store and the position it comes from;   *)
(* a metadata record names the row it was written for.                     *)

MaxStoreRows == 2
MaxLines == 2

\* a line of metadata.jsonl: a JSON record, a blank line, or a line that
\* json.loads rejects
LineKinds == {"json", "blank", "bad"}
\* embeddings.shape[1] of a source store
MergeDims == {2, 3}

SourceStores ==
    [dim : MergeDims, nrows : 0..MaxStoreRows,
     lines : SeqsUpTo(LineKinds, MaxLines)]

\* np.load(store / "embeddings.npy") of source store s
LoadRows(s, st) == [p \in 1..st.nrows |-> [store |-> s, row |-> p - 1]]

\* the records of the JSON lines of source store s: the vectorizer wrote
\* record k for row k with vector_id k
JsonRecords(s, st) ==
    [k \in 1..Len(SelectSeq(st.lines, LAMBDA l : l = "json")) |->
        [store |-> s, row |-> k - 1, vector_id |-> k - 1]]

\* json.loads raises on some line that is not blank
StrictLoadRaises(st) == \E p \in 1..Len(st.lines) : st.lines[p] = "bad"

NoOutput ==
    [impl |-> "none", raised |-> "", embeddings |-> <<>>, metadata |-> <<>>,
     manifest |-> <<>>, report |-> <<>>]

InitMerge ==
    /\ sources \in [1..2 -> SourceStores]
    /\ outdir = NoOutput
    /\ call = NoCall
    /\ IdlePolarity /\ IdleStore /\ IdleClusters /\ IdleQuery /\ IdleEdges
    /\ IdleFrames
    /\ IdleRest

\* embeddings.size of a loaded matrix
ArraySize(st) == st.nrows * st.dim

\* merge_vector_stores.py merge_stores: "np.vstack([case_embeddings,
\* research_embeddings]) if case_embeddings.size and
\* research_embeddings.size else case_embeddings"
StackedRows(case, research) ==
    IF ArraySize(case) # 0 /\ ArraySize(research) # 0
    THEN LoadRows(1, case) \o LoadRows(2, research)
    ELSE LoadRows(1, case)

\* merge_vector_stores.py merge_stores: the records it appends to
\* metadata.jsonl, iter_metadata skipping blank and rejected lines
MergedMetadata(case, research) ==
    LET offset == case.nrows
        crecs == JsonRecords(1, case)
        rrecs == JsonRecords(2, research)
    IN  [p \in 1..Len(crecs) |-> [crecs[p] EXCEPT !.vector_id = p - 1]]
        \o [p \in 1..Len(rrecs) |->
               [rrecs[p] EXCEPT !.vector_id = offset + rrecs[p].vector_id]]

\* merge_vector_stores.py merge_stores(case_dir, research_dir, out_dir)
MergeStores ==
    /\ outdir.impl = "none"
    /\ LET case == sources[1]
           research == sources[2]
           stacked == StackedRows(case, research)
       IN  outdir' =
             IF /\ ArraySize(case) # 0 /\ ArraySize(research) # 0
                /\ case.dim # research.dim
             THEN [NoOutput EXCEPT !.impl = "merge_stores",
                                   !.raised = "ValueError"]
             ELSE [NoOutput EXCEPT
                     !.impl = "merge_stores",
                     !.embeddings = <<stacked>>,
                     !.metadata = <<MergedMetadata(case, research)>>,
                     !.manifest =
                        << [total_chunks |-> Len(stacked),
                            embedding_dim |-> IF Len(stacked) # 0
                                              THEN case.dim ELSE 0] >>]
    /\ UNCHANGED <<polarityVars, storeVars, clusterVars, queryVars, call,
                   edgeVars, sources, frames,
                   restVars>>

\* vectorize_case_docs.py merge_vector_stores: the error its loop over the
\* stores from position s raises first, "" if it raises none
RECURSIVE MergeLoopRaises(_, _, _)
MergeLoopRaises(stores, s, embedding_dim) ==
    IF s > Len(stores) THEN ""
    ELSE LET st == stores[s]
         IN  IF StrictLoadRaises(st) THEN "JSONDecodeError"
             ELSE IF st.nrows # Len(JsonRecords(s, st)) THEN "ValueError"
             ELSE IF embedding_dim # 0 /\ st.dim # embedding_dim
                  THEN "ValueError"
             ELSE MergeLoopRaises(stores, s + 1, st.dim)

\* vectorize_case_docs.py merge_vector_stores: all_records after the loop,
\* "record["vector_id"] = total_chunks; total_chunks += 1"
AllRecords(stores) ==
    LET recs == Flatten([s \in 1..Len(stores) |-> JsonRecords(s, stores[s])])
    IN  [p \in 1..Len(recs) |-> [recs[p] EXCEPT !.vector_id = p - 1]]

\* vectorize_case_docs.py merge_vector_stores(store_paths, output_dir)
MergeVectorStores ==
    /\ outdir.impl = "none"
    /\ outdir' =
         IF MergeLoopRaises(sources, 1, 0) # ""
         THEN [NoOutput EXCEPT !.impl = "merge_vector_stores",
                               !.raised = MergeLoopRaises(sources, 1, 0)]
         ELSE [NoOutput EXCEPT
                 !.impl = "merge_vector_stores",
                 !.embeddings =
                    << Flatten([s \in 1..Len(sources) |->
                                   LoadRows(s, sources[s])]) >>,
                 !.metadata = <<AllRecords(sources)>>,
                 !.manifest =
                    << [total_chunks |-> Len(AllRecords(sources)),
                        embedding_dim |-> sources[1].dim] >>]
    /\ UNCHANGED <<polarityVars, storeVars, clusterVars, queryVars, call,
                   edgeVars, sources, frames,
                   restVars>>

\* the entries of seq s at the 0-based indices of sel, in ascending order:
\* s[sorted(sel)]
AtSorted(s, sel) ==
    LET keep == SelectSeq([p \in 1..Len(s) |-> p], LAMBDA p : (p - 1) \in sel)
    IN  [k \in 1..Len(keep) |-> s[keep[k]]]

\* build_inconsistency_visuals.py: _load_store, then _subset_by_docs with
\* docs whose indices together are sel; the sub_embeddings and sub_records
\* it returns
SubsetByDocs(sel) ==
    /\ outdir.impl = "none"
    /\ LET st == sources[1]
           recs == JsonRecords(1, st)
       IN  /\ sel \subseteq 0..(Len(recs) - 1)
           /\ outdir' =
                IF StrictLoadRaises(st)
                THEN [NoOutput EXCEPT !.impl = "subset_by_docs",
                                      !.raised = "JSONDecodeError"]
                ELSE IF \E i \in sel : i >= st.nrows
                THEN [NoOutput EXCEPT !.impl = "subset_by_docs",
                                      !.raised = "IndexError"]
                ELSE [NoOutput EXCEPT
                        !.impl = "subset_by_docs",
                        !.embeddings = <<AtSorted(LoadRows(1, st), sel)>>,
                        !.metadata = <<AtSorted(recs, sel)>>]
    /\ UNCHANGED <<polarityVars, storeVars, clusterVars, queryVars, call,
                   edgeVars, sources, frames,
                   restVars>>

\* query_vector_store.py main: load_metadata skips blank and rejected
\* lines; "if embeddings.shape[0] != len(metadata): raise SystemExit";
\* query_embeddings raises on an empty matrix and else writes the report
QueryMain ==
    /\ outdir.impl = "none"
    /\ LET st == sources[1]
       IN  outdir' =
             IF st.nrows # Len(JsonRecords(1, st))
             THEN [NoOutput EXCEPT !.impl = "query_main",
                                   !.raised = "SystemExit"]
             ELSE IF ArraySize(st) = 0
             THEN [NoOutput EXCEPT !.impl = "query_main",
                                   !.raised = "RuntimeError"]
             ELSE [NoOutput EXCEPT !.impl = "query_main",
                                   !.report = <<st.nrows>>]
    /\ UNCHANGED <<polarityVars, storeVars, clusterVars, queryVars, call,
                   edgeVars, sources, frames,
                   restVars>>

NextMerge ==
    \/ MergeStores
    \/ MergeVectorStores
    \/ \E sel \in SUBSET (0..(MaxStoreRows - 1)) : SubsetByDocs(sel)
    \/ QueryMain

SpecMerge == InitMerge /\ [][NextMerge]_vars

\* a source store whose rows and parsable records are in step
SourceAligned(s) == sources[s].nrows = Len(JsonRecords(s, sources[s]))

\* the source stores an operation reads
SourcesRead == IF outdir.impl \in {"merge_stores", "merge_vector_stores"}
               THEN {1, 2} ELSE {1}

\* C12: in every store produced by merging or subsetting stores whose rows
\* and records are in step, the number of metadata records equals the
\* number of embedding rows, record i was written for row i, and its
\* vector_id is i; also with an empty case or research store and with blank
\* or rejected lines in the source metadata
C12_Alignment ==
    (/\ outdir.impl \in {"merge_stores", "merge_vector_stores", "subset_by_docs"}
     /\ outdir.raised = ""
     /\ \A s \in SourcesRead : SourceAligned(s))
    => LET emb == outdir.embeddings[1]
           meta == outdir.metadata[1]
       IN  /\ Len(meta) = Len(emb)
           /\ \A p \in 1..Len(meta) :
                 /\ p <= Len(emb) =>
                       /\ meta[p].store = emb[p].store
                       /\ meta[p].row = emb[p].row
                 /\ meta[p].vector_id = p - 1

\* the inputs disagree: a source's row count differs from its record count,
\* or the embedding dimension differs between the sources
InputsMismatch ==
    \/ \E s \in SourcesRead : ~SourceAligned(s)
    \/ /\ SourcesRead = {1, 2}
       /\ sources[1].dim # sources[2].dim

\* C13: building or merging from inputs whose row count differs from the
\* record count, or whose dimension differs between sources, raises an
\* error and writes no embeddings, metadata, manifest or report
C13_MismatchRejected ==
    (/\ outdir.impl \in {"merge_stores", "merge_vector_stores", "query_main"}
     /\ InputsMismatch)
    => /\ outdir.raised # ""
       /\ outdir.embeddings = <<>> /\ outdir.metadata = <<>>
       /\ outdir.manifest = <<>> /\ outdir.report = <<>>

-----------------------------------------------------------------------------
(* Calls that run side by side on one loaded store: each call has a frame  *)
(* of local variables; _find_duplicate_clusters advances one loop          *)
(* iteration at a time, the contradiction searches and the top-k query     *)
(* read the store in one step.                                             *)

CallIds == {1, 2}

\* the stores the calls run on
IndexStores(n) ==
    {r \in StoreRecords(n) :
        \A i \in DOMAIN r : r[i].text \in {T_bothPos, T_filNeg}}

\* the arguments the callers pass besides min_polarity_hits
IndexParams ==
    [similarity_threshold |-> 20, top_k |-> 2, max_edges |-> 2,
     max_candidates |-> 3, query |-> << <<5, 0>> >>]
IndexThresholds == {20, One}
IndexImpls == {"exhibit", "expanded", "inconsistency"}
\* min_polarity_hits as the callers pass it: the default and a stricter one
IndexMinHits == {1, MaxMinHits}

NewFrame ==
    [op |-> "none", pc |-> "idle", threshold |-> 0, impl |-> "",
     min_polarity_hits |-> 0, pairs |-> <<>>, pairIdx |-> 0, parent |-> <<>>,
     result |-> <<>>, raised |-> ""]

InitIndex ==
    /\ \E n \in 0..MaxRows :
          /\ embeddings \in [0..(n - 1) -> EdgeVecs]
          /\ records \in IndexStores(n)
    /\ frames = [id \in CallIds |-> NewFrame]
    /\ call = NoCall
    /\ IdlePolarity /\ IdleClusters /\ IdleQuery /\ IdleEdges /\ IdleMerge
    /\ IdleRest

\* a plausible slip: the calls keep their parent list in one shared place
ParentShared(id) == 1

\* "parent = list(range(len(embeddings)))": the frame that holds the parent
\* list of call id, a list local to the call
ParentOwner(id) == id

\* a plausible slip: sims is a view of embeddings and np.fill_diagonal
\* writes the zeros into the store
DiagonalZeroedInStore(emb) ==
    [i \in DOMAIN emb |->
        [k \in 1..Len(emb[i]) |-> IF k = i + 1 THEN 0 ELSE emb[i][k]]]

\* embeddings after "sims = embeddings @ embeddings.T;
\* np.fill_diagonal(sims, 0.0)": the product is a new array and the zeros
\* are written to it
EmbeddingsAfterClusters(emb) == emb

\* _find_duplicate_clusters(embeddings, threshold) up to the for loop
CallFindClusters(id, t) ==
    /\ frames[id].pc = "idle"
    /\ frames' =
         [frames EXCEPT
            ![id] = [@ EXCEPT !.op = "clusters", !.pc = "loop",
                              !.threshold = t,
                              !.pairs = ArgwhereAtLeast(
                                            ZeroDiagonalSims(embeddings), t)],
            ![ParentOwner(id)].parent = [i \in DOMAIN embeddings |-> i]]
    /\ embeddings' = EmbeddingsAfterClusters(embeddings)
    /\ UNCHANGED <<polarityVars, records, clusterVars, queryVars, call,
                   edgeVars, mergeVars,
                   restVars>>

\* one iteration of "for i, j in pairs" of call id
ClusterStep(id) ==
    /\ frames[id].pc = "loop"
    /\ frames[id].pairIdx < Len(frames[id].pairs)
    /\ frames' =
         [frames EXCEPT
            ![id].pairIdx = @ + 1,
            ![ParentOwner(id)].parent =
                LoopBody(@, frames[id].pairs[frames[id].pairIdx + 1])]
    /\ UNCHANGED <<polarityVars, storeVars, clusterVars, queryVars, call,
                   edgeVars, mergeVars,
                   restVars>>

\* call id after its loop: group by root, drop the groups of one, sort,
\* return
ClusterReturn(id) ==
    /\ frames[id].pc = "loop"
    /\ frames[id].pairIdx = Len(frames[id].pairs)
    /\ LET g == GroupFrom(frames[ParentOwner(id)].parent, <<>>, 0,
                          NumRows(embeddings))
       IN  frames' =
             [frames EXCEPT
                ![id].pc = "done",
                ![id].result = SortByLenDesc(KeepGroups(g.clusters)),
                ![ParentOwner(id)].parent = g.parent]
    /\ UNCHANGED <<polarityVars, storeVars, clusterVars, queryVars, call,
                   edgeVars, mergeVars,
                   restVars>>

\* the edge lists a contradiction search can return on a store
ContradictionResults(impl, emb, recs, mh) ==
    CASE impl = "exhibit" ->
            {SortBySimilarity(es) :
                es \in ExhibitContradictions(emb, recs,
                          IndexParams.similarity_threshold, mh,
                          IndexParams.top_k)}
      [] impl = "expanded" ->
            {SortAndTruncate(es, IndexParams.max_edges) :
                es \in ExpandedContradictions(emb, recs,
                          IndexParams.similarity_threshold, mh,
                          IndexParams.top_k)}
      [] impl = "inconsistency" ->
            {RoundScores(SortAndTruncate(
                InconsistencyEdges(emb, recs,
                    IndexParams.similarity_threshold, mh,
                    IndexParams.max_candidates),
                IndexParams.max_edges))}

\* a whole contradiction search of call id: _find_contradictions of
\* analyze_exhibit_evidence.py or build_expanded_visuals.py, or
\* _build_contradictions
CallFindContradictions(id, impl, mh) ==
    /\ frames[id].pc = "idle"
    /\ \E es \in ContradictionResults(impl, embeddings, records, mh) :
          frames' = [frames EXCEPT
                       ![id] = [@ EXCEPT !.op = "contradictions",
                                         !.pc = "done", !.impl = impl,
                                         !.min_polarity_hits = mh,
                                         !.result = es]]
    /\ UNCHANGED <<polarityVars, storeVars, clusterVars, queryVars, call,
                   edgeVars, mergeVars,
                   restVars>>

\* the hit lists query_embeddings can write for one query, deduplicating
QueryResults(emb, recs) ==
    {TopKHits("query_embeddings", TRUE, ord, recs,
              BestScores(emb, IndexParams.query), IndexParams.top_k) :
        ord \in Argsorts(BestScores(emb, IndexParams.query))}

\* a whole query_embeddings of call id
CallTopK(id) ==
    /\ frames[id].pc = "idle"
    /\ IF QueryRaises("query_embeddings", embeddings)
       THEN frames' = [frames EXCEPT
                         ![id] = [@ EXCEPT !.op = "query", !.pc = "done",
                                           !.raised = "RuntimeError"]]
       ELSE \E hs \in QueryResults(embeddings, records) :
               frames' = [frames EXCEPT
                            ![id] = [@ EXCEPT !.op = "query", !.pc = "done",
                                              !.result = hs]]
    /\ UNCHANGED <<polarityVars, storeVars, clusterVars, queryVars, call,
                   edgeVars, mergeVars,
                   restVars>>

NextIndex ==
    \E id \in CallIds :
        \/ \E t \in IndexThresholds : CallFindClusters(id, t)
        \/ ClusterStep(id)
        \/ ClusterReturn(id)
        \/ \E impl \in IndexImpls, mh \in IndexMinHits :
              CallFindContradictions(id, impl, mh)
        \/ CallTopK(id)

SpecIndex == InitIndex /\ [][NextIndex]_vars

\* "for i, j in pairs": the parent list the whole loop leaves
RECURSIVE UnionPairs(_, _, _)
UnionPairs(par, ps, k) ==
    IF k > Len(ps) THEN par
    ELSE UnionPairs(LoopBody(par, ps[k]), ps, k + 1)

\* _find_duplicate_clusters(embeddings, threshold) run from its first line
\* to its return with nothing in between
FindDuplicateClusters(emb, t) ==
    LET par == UnionPairs([i \in DOMAIN emb |-> i],
                          ArgwhereAtLeast(ZeroDiagonalSims(emb), t), 1)
        g == GroupFrom(par, <<>>, 0, NumRows(emb))
    IN  SortByLenDesc(KeepGroups(g.clusters))

\* the polarity sign the search impl gives the text t
PolarityUnder(impl, t, mh) ==
    CASE impl = "exhibit" -> SignExhibit[t, mh]
      [] impl = "expanded" -> SignExpanded[t, mh]
      [] impl = "inconsistency" ->
            PolaritySignCounts(CountsOfNormalized[t][1],
                               CountsOfNormalized[t][2], mh)

AllPolarityZero(f) ==
    \A i \in DOMAIN records :
        PolarityUnder(f.impl, records[i].text, f.min_polarity_hits) = 0

C19_IndexReadOnly ==
    [][embeddings' = embeddings /\ records' = records]_vars

C19_Witness ==
    /\ frames # <<>>
    /\ NumRows(embeddings) >= 2
    /\ \E a, b \in DOMAIN frames :
          /\ frames[a].pc = "done" /\ frames[a].op = "clusters"
          /\ frames[a].result # <<>>
          /\ frames[b].pc = "done" /\ frames[b].op \in {"contradictions", "query"}
          /\ frames[b].result # <<>>

\* C20: whatever steps of other calls ran in between, a finished clustering
\* call holds the clusters the function computes when run alone on the
\* store, and a finished contradiction search holds one of the edge lists
\* the search can return when run alone.
C20_SameAsAlone ==
    \A id \in DOMAIN frames :
        LET f == frames[id]
        IN  f.pc = "done" =>
              /\ f.op = "clusters" =>
                    f.result = FindDuplicateClusters(embeddings, f.threshold)
              /\ f.op = "contradictions" =>
                    f.result \in ContradictionResults(f.impl, embeddings,
                                     records, f.min_polarity_hits)

\* two clustering calls whose loops overlapped and whose results differ
C20_Witness ==
    /\ frames # <<>>
    /\ \E a, b \in DOMAIN frames :
          /\ a # b
          /\ frames[a].pc = "done" /\ frames[a].op = "clusters"
          /\ frames[a].result # <<>>
          /\ frames[b].op = "clusters" /\ frames[b].pc = "loop"
          /\ frames[b].pairIdx > 0
          /\ frames[b].threshold # frames[a].threshold

-----------------------------------------------------------------------------
(* The polarity cache of build_expanded_visuals.py _find_contradictions:   *)
(* successive calls on one store, each looking up the signs of chunks.     *)

\* a plausible slip: the cache outlives the call
CacheKept(old) == old

\* "polarity_cache: Dict[int, int] = {}" at the start of a call
CacheAtCallStart(old) == <<>>

InitCache ==
    /\ \E n \in 1..MaxRows :
          /\ embeddings = [i \in 0..(n - 1) |-> <<5, 0>>]
          /\ records \in IndexStores(n)
    /\ \E mh \in MinHitsSet : args = [min_polarity_hits |-> mh]
    /\ locals = [polarity_cache |-> <<>>, seen |-> {}]
    /\ pending = {}
    /\ call = NoCall
    /\ IdlePolarity /\ IdleClusters /\ IdleQuery /\ IdleEdges /\ IdleMerge
    /\ IdleFrames

\* a new call of _find_contradictions(..., min_polarity_hits=mh, ...)
CallWithCache(mh) ==
    /\ args' = [min_polarity_hits |-> mh]
    /\ locals' = [locals EXCEPT !.polarity_cache = CacheAtCallStart(@)]
    /\ UNCHANGED <<polarityVars, storeVars, clusterVars, queryVars, call,
                   edgeVars, mergeVars, frames, pending>>

\* "if idx not in polarity_cache: polarity_cache[idx] = _polarity_sign(
\* text, min_polarity_hits); sign = polarity_cache[idx]"; seen collects
\* (text, min_hits, sign) of every sign the call has used
CachedSign(idx) ==
    /\ idx \in DOMAIN records
    /\ LET cache == IF idx \in DOMAIN locals.polarity_cache
                    THEN locals.polarity_cache
                    ELSE locals.polarity_cache @@
                         (idx :> SignExpanded[records[idx].text,
                                              args.min_polarity_hits])
       IN  locals' = [polarity_cache |-> cache,
                      seen |-> locals.seen \cup
                               {[text |-> records[idx].text,
                                 min_hits |-> args.min_polarity_hits,
                                 sign |-> cache[idx]]}]
    /\ UNCHANGED <<polarityVars, storeVars, clusterVars, queryVars, call,
                   edgeVars, mergeVars, frames, pending, args>>

NextCache ==
    \/ \E mh \in MinHitsSet : CallWithCache(mh)
    \/ \E idx \in 0..(MaxRows - 1) : CachedSign(idx)

SpecCache == InitCache /\ [][NextCache]_vars

\* C21: every sign a call has used, cached or not, is _polarity_sign of
\* the chunk's text and the call's min_hits, and two uses with the same
\* text and min_hits gave the same sign, whatever calls ran before.
C21_PolarityDeterministic ==
    /\ \A o \in locals.seen :
          o.sign = PolaritySignExpanded(o.text, o.min_hits)
    /\ \A o1, o2 \in locals.seen :
          (o1.text = o2.text /\ o1.min_hits = o2.min_hits)
              => o1.sign = o2.sign

\* one text was given different signs by two calls of different min_hits,
\* and the running call has signs in its cache
C21_Witness ==
    /\ locals # <<>>
    /\ locals.polarity_cache # <<>>
    /\ \E o1, o2 \in locals.seen :
          /\ o1.text = o2.text
          /\ o1.min_hits # o2.min_hits
          /\ o1.sign # o2.sign

-----------------------------------------------------------------------------
(* Record ids: vectorize_case_docs.py _hash_id and _build_records, the     *)
(* stores vectorize_document writes and merge_vector_stores merges.        *)

P_a == <<"a">>
P_a0 == <<"a", "|", "0">>
X_x == <<"x">>
X_1x == <<"1", "|", "x">>

\* the source_txt paths and the chunk texts of the documents
DocPaths == {P_a, P_a0}
ChunkTexts == {X_x, X_1x}

\* str(chunk_index) inside the f-string
DecimalDigits == <<"0", "1", "2", "3", "4", "5", "6", "7", "8", "9">>
RECURSIVE Str(_)
Str(n) ==
    IF n < 10 THEN <<DecimalDigits[n + 1]>>
    ELSE Str(n \div 10) \o <<DecimalDigits[(n % 10) + 1]>>

\* _hash_id: sha1 of f"{source_txt}|{chunk_index}|{text}"; the digest is
\* one-to-one on the payloads of the model, so the payload stands for it
HashId(source_txt, chunk_index, t) ==
    source_txt \o <<"|">> \o Str(chunk_index) \o <<"|">> \o t

\* _build_records(chunks, source_txt=...): chunks is the list of
\* (chunk_index, text) of _chunk_text, chunk_index counting from 0
BuildRecords(chunks, source_txt) ==
    [p \in 1..Len(chunks) |->
        [id |-> HashId(source_txt, p - 1, chunks[p]),
         vector_id |-> p - 1,
         source_txt |-> source_txt,
         chunk_index |-> p - 1,
         text |-> chunks[p]]]

InitIds ==
    /\ sources = <<>>
    /\ outdir = NoOutput
    /\ call = NoCall
    /\ IdlePolarity /\ IdleStore /\ IdleClusters /\ IdleQuery /\ IdleEdges
    /\ IdleFrames
    /\ IdleRest

\* vectorize_document(input_path, output_dir) into a new output_dir: one
\* embedding row per chunk, the records of _build_records
VectorizeDocument(source_txt, chunks) ==
    /\ Len(sources) < 2
    /\ sources' = Append(sources,
                         [embeddings |-> [p \in 1..Len(chunks) |-> p - 1],
                          metadata |-> BuildRecords(chunks, source_txt)])
    /\ UNCHANGED <<polarityVars, storeVars, clusterVars, queryVars, call,
                   edgeVars, outdir, frames, restVars>>

\* merge_vector_stores(store_paths, output_dir): store_paths[k] is the
\* position in sources of the k-th store of the list; the stores are
\* well-formed, so no check of the loop raises
MergeWrittenStores(store_paths) ==
    /\ \A k \in 1..Len(store_paths) : store_paths[k] \in 1..Len(sources)
    /\ LET all_records ==
              Flatten([k \in 1..Len(store_paths) |->
                          sources[store_paths[k]].metadata])
           combined ==
              Flatten([k \in 1..Len(store_paths) |->
                          [p \in 1..Len(sources[store_paths[k]].embeddings) |->
                              <<store_paths[k],
                                sources[store_paths[k]].embeddings[p]>>]])
       IN  outdir' =
             [NoOutput EXCEPT
                !.impl = "merge_vector_stores",
                !.embeddings = <<combined>>,
                !.metadata =
                   << [p \in 1..Len(all_records) |->
                          [all_records[p] EXCEPT !.vector_id = p - 1]] >>,
                !.manifest = << [total_chunks |-> Len(all_records)] >>]
    /\ UNCHANGED <<polarityVars, storeVars, clusterVars, queryVars, call,
                   edgeVars, sources, frames, restVars>>

NextIds ==
    \/ \E source_txt \in DocPaths,
          chunks \in SeqsUpTo(ChunkTexts, MaxStoreRows) :
            VectorizeDocument(source_txt, chunks)
    \/ \E store_paths \in SeqsUpTo({1, 2}, 2) :
            store_paths # <<>> /\ MergeWrittenStores(store_paths)

SpecIds == InitIds /\ [][NextIds]_vars

\* the metadata of every store written so far
WrittenMetadata ==
    {sources[s].metadata : s \in DOMAIN sources}
        \cup (IF outdir.metadata = <<>> THEN {} ELSE {outdir.metadata[1]})

\* C22: in every store written by vectorize_document or merge_vector_stores
\* no two records share an id, and two records anywhere that differ in
\* (source_txt, chunk_index, text) differ in id.
C22_UniqueIds ==
    /\ \A recs \in WrittenMetadata :
          \A p, q \in 1..Len(recs) : p # q => recs[p].id # recs[q].id
    /\ \A r1, r2 \in WrittenMetadata :
          \A p \in 1..Len(r1), q \in 1..Len(r2) :
              <<r1[p].source_txt, r1[p].chunk_index, r1[p].text>>
                  # <<r2[q].source_txt, r2[q].chunk_index, r2[q].text>>
              => r1[p].id # r2[q].id

-----------------------------------------------------------------------------
(* Case mentions: extract_case_mentions.py extract_mentions.  A line is a  *)
(* sequence of units: words, numbers, reporter abbreviations, single       *)
(* blanks and commas; the patterns are matched unit by unit.               *)

\* [A-Z][A-Za-z.&'-]{2,} words, \d{1,4} numbers and reporter names
NameUnits == {"Smith", "Jones", "Brown", "Board", "Estate", "Garcia"}
NumberUnits == {"123", "456"}
ReporterUnits == {"S.W.3d", "U.S."}
\* the characters of str.strip(" ,.;:)(") that occur as units
StripUnits == {" ", ","}

\* \s+ at position i of line: the number of blanks from i on
RECURSIVE BlanksAt(_, _)
BlanksAt(line, i) ==
    IF i <= Len(line) /\ line[i] = " " THEN 1 + BlanksAt(line, i + 1) ELSE 0

\* the length of head \s+ mid \s+ tail starting at position i, 0 if none:
\* CASE_NAME_PATTERN is Name v. Name, REPORTER_PATTERN is number reporter
\* number
ThreePartAt(line, i, heads, mids, tails) ==
    IF ~ (line[i] \in heads) THEN 0
    ELSE LET b1 == BlanksAt(line, i + 1)
             m == i + 1 + b1
         IN  IF b1 = 0 \/ m > Len(line) \/ ~ (line[m] \in mids) THEN 0
             ELSE LET b2 == BlanksAt(line, m + 1)
                      t == m + 1 + b2
                  IN  IF b2 = 0 \/ t > Len(line) \/ ~ (line[t] \in tails)
                      THEN 0
                      ELSE t - i + 1

\* the length of head \s+ Name starting at position i, 0 if none:
\* IN_RE_PATTERN and EX_PARTE_PATTERN
TwoPartAt(line, i, head) ==
    IF line[i] # head THEN 0
    ELSE LET b == BlanksAt(line, i + 1)
             t == i + 1 + b
         IN  IF b = 0 \/ t > Len(line) \/ ~ (line[t] \in NameUnits) THEN 0
             ELSE t - i + 1

MatchAt(pattern, line, i) ==
    CASE pattern = "REPORTER_PATTERN" ->
            ThreePartAt(line, i, NumberUnits, ReporterUnits, NumberUnits)
      [] pattern = "CASE_NAME_PATTERN" ->
            ThreePartAt(line, i, NameUnits, {"v."}, NameUnits)
      [] pattern = "IN_RE_PATTERN" -> TwoPartAt(line, i, "In re")
      [] pattern = "EX_PARTE_PATTERN" -> TwoPartAt(line, i, "Ex parte")

\* [m.group(0) for m in pattern.finditer(line)] from position i on: the
\* matches from left to right, none overlapping another
RECURSIVE FindIter(_, _, _)
FindIter(pattern, line, i) ==
    IF i > Len(line) THEN <<>>
    ELSE LET n == MatchAt(pattern, line, i)
         IN  IF n = 0 THEN FindIter(pattern, line, i + 1)
             ELSE <<SubSeq(line, i, i + n - 1)>>
                      \o FindIter(pattern, line, i + n)

\* str.strip(chars)
RECURSIVE StripOf(_, _)
StripOf(s, chars) ==
    IF s = <<>> THEN s
    ELSE IF Head(s) \in chars THEN StripOf(Tail(s), chars)
    ELSE IF s[Len(s)] \in chars THEN StripOf(SubSeq(s, 1, Len(s) - 1), chars)
    ELSE s

\* re.sub(r"\s+", " ", s)
CollapseBlanks(s) ==
    LET keep == SelectSeq([p \in 1..Len(s) |-> p],
                          LAMBDA p : ~ (s[p] = " " /\ p > 1 /\ s[p - 1] = " "))
    IN  [k \in 1..Len(keep) |-> s[keep[k]]]

normalize_case_name(s) == CollapseBlanks(StripOf(s, StripUnits))
normalize_reporter(s) == StripOf(s, StripUnits)

\* the reporters and the case_names lists of one line
ReportersOf(line) ==
    LET ms == FindIter("REPORTER_PATTERN", line, 1)
    IN  [k \in 1..Len(ms) |-> normalize_reporter(ms[k])]
CaseNamesOf(line) ==
    LET ms == FindIter("CASE_NAME_PATTERN", line, 1)
                \o FindIter("IN_RE_PATTERN", line, 1)
                \o FindIter("EX_PARTE_PATTERN", line, 1)
    IN  [k \in 1..Len(ms) |-> normalize_case_name(ms[k])]

\* a plausible slip: enumerate without start=1
LineNoFromZero(pos) == pos - 1

\* line_no of enumerate(lines, start=1) for the line at position pos of
\* the sequence lines
LineNo(pos) == pos

\* the mentions the loop body appends for one line
LineMentions(line, line_no, source_txt) ==
    LET reporters == ReportersOf(line)
        case_names == CaseNamesOf(line)
        mention(c, r) ==
            [case_name |-> c, reporter |-> r, source_txt |-> source_txt,
             line_no |-> line_no, context |-> StripOf(line, {" "})]
    IN  IF StripOf(line, {" "}) = <<>> THEN <<>>
        ELSE IF reporters = <<>> /\ case_names = <<>> THEN <<>>
        ELSE IF case_names # <<>> /\ reporters # <<>>
        THEN Flatten([c \in 1..Len(case_names) |->
                        [r \in 1..Len(reporters) |->
                            mention(case_names[c], reporters[r])]])
        ELSE [c \in 1..Len(case_names) |-> mention(case_names[c], <<>>)]
             \o [r \in 1..Len(reporters) |-> mention(<<>>, reporters[r])]

\* the pieces the lines of the inputs are made of
Pc_case == <<"Brown", " ", " ", "v.", " ", "Board">>
Pc_inre == <<"In re", " ", "Estate">>
Pc_exparte == <<"Ex parte", " ", "Garcia">>
Pc_reporter == <<"123", " ", "S.W.3d", " ", "456">>
Pc_blank == <<" ">>
Pieces == {Pc_case, Pc_inre, Pc_exparte, Pc_reporter, Pc_blank}

\* a line of one piece, or of two pieces with ", " between them
MentionLines ==
    Pieces \cup {a \o <<",", " ">> \o b : a, b \in Pieces}

InitMentions ==
    /\ args \in [lines : SeqsUpTo(MentionLines, MaxLines),
                 source_txt : {<<"s", ".", "t", "x", "t">>}]
    /\ locals = [pc |-> "loop", pos |-> 0, mentions |-> <<>>]
    /\ pending = {}
    /\ call = NoCall
    /\ IdlePolarity /\ IdleStore /\ IdleClusters /\ IdleQuery /\ IdleEdges
    /\ IdleMerge /\ IdleFrames

\* one iteration of "for line_no, line in enumerate(lines, start=1)"
ExtractLine ==
    /\ locals.pc = "loop"
    /\ locals.pos < Len(args.lines)
    /\ locals' =
         [locals EXCEPT
            !.pos = @ + 1,
            !.mentions = @ \o LineMentions(args.lines[locals.pos + 1],
                                           LineNo(locals.pos + 1),
                                           args.source_txt)]
    /\ UNCHANGED <<polarityVars, storeVars, clusterVars, queryVars, call,
                   edgeVars, mergeVars, frames, pending, args>>

\* "return mentions"
ReturnMentions ==
    /\ locals.pc = "loop"
    /\ locals.pos = Len(args.lines)
    /\ locals' = [locals EXCEPT !.pc = "done"]
    /\ UNCHANGED <<polarityVars, storeVars, clusterVars, queryVars, call,
                   edgeVars, mergeVars, frames, pending, args>>

NextMentions == ExtractLine \/ ReturnMentions

SpecMentions == InitMentions /\ [][NextMentions]_vars

\* how many entries of the list s equal x
TimesIn(s, x) == Cardinality({p \in 1..Len(s) : s[p] = x})

\* the returned mentions of the line at 1-based position k
MentionsOfLine(k) ==
    SelectSeq(locals.mentions, LAMBDA m : m.line_no = k)

\* C23: when extract_mentions returns, every mention carries the 1-based
\* position of a line; for a line with case names and reporters there is
\* one mention per (case name, reporter) combination, each with both
\* fields; for a line with only case names or only reporters one mention
\* per item with the other field empty; for a line with neither, and for a
\* blank line, none.
C23_MentionsPerLine ==
    locals.pc = "done" =>
        /\ \A p \in 1..Len(locals.mentions) :
              locals.mentions[p].line_no \in 1..Len(args.lines)
        /\ \A k \in 1..Len(args.lines) :
              LET cs == CaseNamesOf(args.lines[k])
                  rs == ReportersOf(args.lines[k])
                  ms == MentionsOfLine(k)
                  named == [p \in 1..Len(ms) |->
                               <<ms[p].case_name, ms[p].reporter>>]
              IN  IF cs # <<>> /\ rs # <<>>
                  THEN /\ Len(ms) = Len(cs) * Len(rs)
                       /\ \A c \in Range(cs), r \in Range(rs) :
                             TimesIn(named, <<c, r>>)
                                = TimesIn(cs, c) * TimesIn(rs, r)
                  ELSE /\ Len(ms) = Len(cs) + Len(rs)
                       /\ \A c \in Range(cs) :
                             TimesIn(named, <<c, <<>> >>)
                                = TimesIn(cs, c)
                       /\ \A r \in Range(rs) :
                             TimesIn(named, << <<>>, r>>)
                                = TimesIn(rs, r)

\* returned: a blank first line, then a line with one case name and one
\* reporter, whose single mention carries line_no 2
C23_Witness ==
    /\ locals # <<>>
    /\ locals.pc = "done"
    /\ Len(args.lines) >= 2
    /\ args.lines[1] = Pc_blank
    /\ Len(CaseNamesOf(args.lines[2])) = 1
    /\ Len(ReportersOf(args.lines[2])) = 1
    /\ Len(locals.mentions) = 1
    /\ locals.mentions[1].line_no = 2

-----------------------------------------------------------------------------
(* Header lines: extract_case_mentions.py strip_headers, on strings as     *)
(* sequences of characters.                                                *)

H_FILE == <<"F", "I", "L", "E", ":">>
H_PAGES == <<"P", "A", "G", "E", "S", ":">>
H_OCR_MODE == <<"O", "C", "R", "_", "M", "O", "D", "E", ":">>
H_DPI == <<"D", "P", "I", ":">>
H_rule == <<"=", "=", "=">>
H_EXTRACTED ==
    <<"-", "-", "-", " ", "E", "X", "T", "R", "A", "C", "T", "E", "D", " ",
      "T", "E", "X", "T", " ", "-", "-", "-">>
H_OCR_TEXT ==
    <<"-", "-", "-", " ", "O", "C", "R", " ", "T", "E", "X", "T", " ",
      "-", "-", "-">>

\* str.startswith(prefix)
StartsWith(line, prefix) ==
    Len(line) >= Len(prefix) /\ SubSeq(line, 1, Len(prefix)) = prefix

\* the three "continue" conditions of the loop
IsHeaderLine(line) ==
    \/ \E prefix \in {H_FILE, H_PAGES, H_OCR_MODE, H_DPI} :
          StartsWith(line, prefix)
    \/ StartsWith(line, H_rule) \/ StartsWith(line, H_EXTRACTED)
    \/ StartsWith(line, H_OCR_TEXT)

\* content.splitlines() from position i on, cur being the line begun: a
\* line ends at "\n", at "\r" and at "\r\n"; a line begun and not ended is
\* a line, an ended last line is followed by none
RECURSIVE SplitFrom(_, _, _)
SplitFrom(content, i, cur) ==
    IF i > Len(content) THEN (IF cur = <<>> THEN <<>> ELSE <<cur>>)
    ELSE IF content[i] = "\r" /\ i < Len(content) /\ content[i + 1] = "\n"
    THEN <<cur>> \o SplitFrom(content, i + 2, <<>>)
    ELSE IF content[i] \in {"\n", "\r"}
    THEN <<cur>> \o SplitFrom(content, i + 1, <<>>)
    ELSE SplitFrom(content, i + 1, Append(cur, content[i]))

SplitLines(content) == SplitFrom(content, 1, <<>>)

\* "\n".join(lines)
JoinLines(lines) ==
    Flatten([k \in 1..Len(lines) |->
                IF k = 1 THEN lines[k] ELSE <<"\n">> \o lines[k]])

\* strip_headers(content)
strip_headers(content) ==
    JoinLines(SelectSeq(SplitLines(content),
                        LAMBDA line : ~ IsHeaderLine(line)))

MaxPieces == 3

\* the pieces the contents are made of
ContentPieces == {H_FILE, H_rule, <<"x">>, <<"\n">>, <<"\r">>}

InitHeaders ==
    /\ \E ps \in SeqsUpTo(ContentPieces, MaxPieces) :
          args = [content |-> Flatten(ps)]
    /\ locals = [pc |-> "start", once |-> <<>>, twice |-> <<>>]
    /\ pending = {}
    /\ call = NoCall
    /\ IdlePolarity /\ IdleStore /\ IdleClusters /\ IdleQuery /\ IdleEdges
    /\ IdleMerge /\ IdleFrames

\* cleaned = strip_headers(content)
StripOnce ==
    /\ locals.pc = "start"
    /\ locals' = [locals EXCEPT !.pc = "once",
                                !.once = strip_headers(args.content)]
    /\ UNCHANGED <<polarityVars, storeVars, clusterVars, queryVars, call,
                   edgeVars, mergeVars, frames, pending, args>>

\* strip_headers(cleaned)
StripAgain ==
    /\ locals.pc = "once"
    /\ locals' = [locals EXCEPT !.pc = "twice",
                                !.twice = strip_headers(locals.once)]
    /\ UNCHANGED <<polarityVars, storeVars, clusterVars, queryVars, call,
                   edgeVars, mergeVars, frames, pending, args>>

NextHeaders == StripOnce \/ StripAgain

SpecHeaders == InitHeaders /\ [][NextHeaders]_vars

\* the lines of the content that start with none of the seven prefixes
KeptLines(content) ==
    LET lines == SplitLines(content)
        heads == {H_FILE, H_PAGES, H_OCR_MODE, H_DPI, H_rule, H_EXTRACTED,
                  H_OCR_TEXT}
        keep == SelectSeq([p \in 1..Len(lines) |-> p],
                          LAMBDA p : \A h \in heads : ~ StartsWith(lines[p], h))
    IN  [k \in 1..Len(keep) |-> lines[keep[k]]]

\* the result is the lines that start with none of the seven prefixes,
\* unchanged and in their order
C24_RemovesExactlyHeaders ==
    locals.pc \in {"once", "twice"} =>
        locals.once = JoinLines(KeptLines(args.content))

-----------------------------------------------------------------------------
(* Ingestion: ingest_merged_case.py ingest_file.  A file is its suffix and *)
(* the texts its pages hold; a text file's content is those texts in one   *)
(* string.                                                                 *)

SUPPORTED_SUFFIXES == {<<".", "p", "d", "f">>, <<".", "t", "x", "t">>}

Suffixes ==
    SUPPORTED_SUFFIXES \cup
    {<<".", "P", "D", "F">>, <<".", "T", "x", "t">>,
     <<".", "d", "o", "c", "x">>, <<>>}

\* what page.extract_text() returns: nothing, blanks, text with blanks
\* around it
PageTexts == {<<>>, <<" ">>, <<"a">>, <<"\n", "a", " ", "b", " ">>}

MaxPages == 2

\* str.strip()
StripWhitespace(s) == StripOf(s, {" ", "\n"})

\* a plausible slip: pages without text are left out
ExtractNonEmptyPages(raw) ==
    SelectSeq([k \in 1..Len(raw) |-> StripWhitespace(raw[k])],
              LAMBDA page : page # <<>>)

\* _extract_pages_from_pdf: one stripped text per page of the reader
ExtractPagesFromPdf(raw) == [k \in 1..Len(raw) |-> StripWhitespace(raw[k])]

\* _extract_pages_from_text: [content.strip()]
ExtractPagesFromText(raw) == <<StripWhitespace(Flatten(raw))>>

\* a plausible slip: a file of unknown type is read as text
IterPagesRaisesNever(suffix) == FALSE

\* _iter_pages raises UnsupportedFileTypeError
IterPagesRaises(suffix) == Lower(suffix) \notin SUPPORTED_SUFFIXES

\* "\n\n".join(pages)
JoinPages(pages) ==
    Flatten([k \in 1..Len(pages) |->
                IF k = 1 THEN pages[k] ELSE <<"\n", "\n">> \o pages[k]])

\* the payload of _write_json_output
JsonPayload(pages, base_name) ==
    [base_name |-> base_name,
     page_count |-> Len(pages),
     pages |-> [k \in 1..Len(pages) |->
                   [page_number |-> (k - 1) + 1,
                    text |-> pages[k],
                    char_length |-> Len(pages[k])]]]

InitIngest ==
    /\ args \in [suffix : Suffixes, raw : SeqsUpTo(PageTexts, MaxPages),
                 base_name : {<<"n", "o", "t", "e">>}]
    /\ locals = [pc |-> "start", raised |-> "", dir_made |-> FALSE,
                 pages |-> <<>>, text_file |-> <<>>, json_file |-> <<>>,
                 result |-> <<>>]
    /\ pending = {}
    /\ call = NoCall
    /\ IdlePolarity /\ IdleStore /\ IdleClusters /\ IdleQuery /\ IdleEdges
    /\ IdleMerge /\ IdleFrames

\* ingest_file up to "pages = _iter_pages(input_path)"
IterPages ==
    /\ locals.pc = "start"
    /\ locals' =
         IF IterPagesRaises(args.suffix)
         THEN [locals EXCEPT !.pc = "done", !.dir_made = TRUE,
                             !.raised = "UnsupportedFileTypeError"]
         ELSE [locals EXCEPT
                 !.pc = "pages", !.dir_made = TRUE,
                 !.pages = IF Lower(args.suffix) = <<".", "p", "d", "f">>
                           THEN ExtractPagesFromPdf(args.raw)
                           ELSE ExtractPagesFromText(args.raw)]
    /\ UNCHANGED <<polarityVars, storeVars, clusterVars, queryVars, call,
                   edgeVars, mergeVars, frames, pending, args>>

\* _write_text_output(pages, text_path)
WriteTextOutput ==
    /\ locals.pc = "pages"
    /\ LET normalized_pages ==
              [k \in 1..Len(locals.pages) |-> StripWhitespace(locals.pages[k])]
       IN  locals' =
             [locals EXCEPT
                !.pc = "text",
                !.text_file =
                   <<StripWhitespace(JoinPages(normalized_pages))>>]
    /\ UNCHANGED <<polarityVars, storeVars, clusterVars, queryVars, call,
                   edgeVars, mergeVars, frames, pending, args>>

\* _write_json_output(pages, ...) and the return of ingest_file
WriteJsonOutput ==
    /\ locals.pc = "text"
    /\ locals' =
         [locals EXCEPT
            !.pc = "done",
            !.json_file = <<JsonPayload(locals.pages, args.base_name)>>,
            !.result = <<[page_count |-> Len(locals.pages)]>>]
    /\ UNCHANGED <<polarityVars, storeVars, clusterVars, queryVars, call,
                   edgeVars, mergeVars, frames, pending, args>>

NextIngest == IterPages \/ WriteTextOutput \/ WriteJsonOutput

SpecIngest == InitIngest /\ [][NextIngest]_vars

IsPdf == Lower(args.suffix) = <<".", "p", "d", "f">>
IsTxt == Lower(args.suffix) = <<".", "t", "x", "t">>

\* C25: when ingest_file returns, page_count is 1 for a text file and the
\* number of pages of the reader for a PDF, empty pages counted; the JSON
\* payload has page_count pages numbered 1, 2, .. in order, each with
\* char_length the length of its text.
C25_PageCount ==
    (locals.pc = "done" /\ locals.raised = "") =>
        LET payload == locals.json_file[1]
            page_count == locals.result[1].page_count
        IN  /\ IsTxt => page_count = 1
            /\ IsPdf => page_count = Len(args.raw)
            /\ payload.page_count = page_count
            /\ Len(payload.pages) = page_count
            /\ \A k \in 1..Len(payload.pages) :
                  /\ payload.pages[k].page_number = k
                  /\ payload.pages[k].char_length = Len(payload.pages[k].text)

\* a PDF of two pages, the first without text, has been ingested
C25_Witness ==
    /\ locals # <<>>
    /\ locals.pc = "done"
    /\ IsPdf
    /\ Len(args.raw) = 2
    /\ StripWhitespace(args.raw[1]) = <<>>
    /\ args.raw[2] # StripWhitespace(args.raw[2])
    /\ locals.result[1].page_count = 2

\* C26: for a suffix that is neither .pdf nor .txt in any letter case,
\* ingest_file writes neither output file at any point and ends by raising
\* UnsupportedFileTypeError.
C26_UnsupportedRejected ==
    (~ IsPdf /\ ~ IsTxt) =>
        /\ locals.text_file = <<>>
        /\ locals.json_file = <<>>
        /\ locals.pc # "start" =>
              locals.pc = "done" /\ locals.raised = "UnsupportedFileTypeError"

\* a .docx file was rejected after the output directory was made
C26_Witness ==
    /\ locals # <<>>
    /\ args.suffix = <<".", "d", "o", "c", "x">>
    /\ args.raw # <<>>
    /\ locals.pc = "done"
    /\ locals.dir_made
    /\ locals.raised = "UnsupportedFileTypeError"

-----------------------------------------------------------------------------
(* Chunking: vectorize_case_docs.py _chunk_text, one iteration of its      *)
(* while loop at a time.                                                   *)

MaxTextLen == 6

\* the parameters a caller passes, rejected ones included
ChunkMaxChars == {0, 1, 2, 3}
ChunkOverlaps == {-1, 0, 1, 2}
ChunkMinChars == {1, 2, 3}

\* the ValueError checks at the top of _chunk_text
ChunkParamsRejected(max_chars, overlap) ==
    max_chars <= 0 \/ overlap < 0 \/ overlap >= max_chars

\* a plausible slip: the next window starts one character too early
NextStartOneBack(end, overlap) == end - overlap - 1

\* start = end - overlap
NextStart(end, overlap) == end - overlap

\* text[start:end] for 0 <= start <= end <= len(text)
Slice(t, start, end) == SubSeq(t, start + 1, end)

InitChunk ==
    /\ args \in [text : SeqsUpTo({"a", "b"}, MaxTextLen),
                 max_chars : ChunkMaxChars, overlap : ChunkOverlaps,
                 min_chars : ChunkMinChars]
    /\ locals = [pc |-> "start", raised |-> "", start |-> 0,
                 chunk_index |-> 0, chunks |-> <<>>]
    /\ pending = {}
    /\ call = NoCall
    /\ IdlePolarity /\ IdleStore /\ IdleClusters /\ IdleQuery /\ IdleEdges
    /\ IdleMerge /\ IdleFrames

\* the checks of the parameters and the initialisation of the locals
ChunkTextStart ==
    /\ locals.pc = "start"
    /\ locals' =
         IF ChunkParamsRejected(args.max_chars, args.overlap)
         THEN [locals EXCEPT !.pc = "done", !.raised = "ValueError"]
         ELSE [locals EXCEPT !.pc = "loop"]
    /\ UNCHANGED <<polarityVars, storeVars, clusterVars, queryVars, call,
                   edgeVars, mergeVars, frames, pending, args>>

\* one iteration of "while start < text_len", its break included
ChunkTextIteration ==
    /\ locals.pc = "loop"
    /\ locals.start < Len(args.text)
    /\ LET end == Min2(locals.start + args.max_chars, Len(args.text))
           chunk == Slice(args.text, locals.start, end)
           kept == Len(chunk) >= args.min_chars
       IN  locals' =
             [locals EXCEPT
                !.chunks = IF kept
                           THEN Append(@, [chunk_index |-> locals.chunk_index,
                                           text |-> chunk])
                           ELSE @,
                !.chunk_index = IF kept THEN @ + 1 ELSE @,
                !.pc = IF end = Len(args.text) THEN "done" ELSE "loop",
                !.start = IF end = Len(args.text) THEN @
                          ELSE NextStart(end, args.overlap)]
    /\ UNCHANGED <<polarityVars, storeVars, clusterVars, queryVars, call,
                   edgeVars, mergeVars, frames, pending, args>>

\* the while condition fails: return chunks
ChunkTextReturn ==
    /\ locals.pc = "loop"
    /\ locals.start >= Len(args.text)
    /\ locals' = [locals EXCEPT !.pc = "done"]
    /\ UNCHANGED <<polarityVars, storeVars, clusterVars, queryVars, call,
                   edgeVars, mergeVars, frames, pending, args>>

NextChunk == ChunkTextStart \/ ChunkTextIteration \/ ChunkTextReturn

\* the interpreter keeps running the function: a step that can be taken is
\* taken
SpecChunk == InitChunk /\ [][NextChunk]_vars /\ WF_vars(NextChunk)

\* max_chars > 0 and 0 <= overlap < max_chars
ParamsAccepted ==
    args.max_chars > 0 /\ 0 <= args.overlap /\ args.overlap < args.max_chars

\* the windows of the text: window j starts at j * (max_chars - overlap)
\* and the last one is the first to reach the end of the text
WindowStarts ==
    LET step == args.max_chars - args.overlap
    IN  {s \in 0..(Len(args.text) - 1) :
            /\ s % step = 0
            /\ s = 0 \/ (s - step) + args.max_chars < Len(args.text)}

WindowAt(s) ==
    Slice(args.text, s, Min2(s + args.max_chars, Len(args.text)))

KeptWindowStarts == {s \in WindowStarts : Len(WindowAt(s)) >= args.min_chars}

ChunkInvariant ==
    ParamsAccepted =>
        /\ \A k \in 1..Len(locals.chunks) :
              /\ locals.chunks[k].chunk_index = k - 1
              /\ Len(locals.chunks[k].text) >= args.min_chars
              /\ Len(locals.chunks[k].text) <= args.max_chars
        /\ locals.pc = "done" =>
              /\ locals.raised = ""
              /\ Len(locals.chunks) = Cardinality(KeptWindowStarts)
              /\ \A k \in 1..Len(locals.chunks) :
                    \E s \in KeptWindowStarts :
                        /\ Cardinality({x \in KeptWindowStarts : x < s}) = k - 1
                        /\ locals.chunks[k].text = WindowAt(s)

StartAdvances ==
    (ParamsAccepted /\ locals.pc = "loop" /\ locals'.pc = "loop") =>
        /\ locals'.start - locals.start = args.max_chars - args.overlap
        /\ locals'.start > locals.start

\* C30: with max_chars > 0 and 0 <= overlap < max_chars every call of
\* _chunk_text returns; an iteration that does not end the loop moves start
\* forward by max_chars - overlap >= 1; the chunks emitted are the windows
\* of length at least min_chars, none longer than max_chars, shorter
\* windows left out, and their chunk_index values are 0, 1, 2, .. without
\* a gap.
C30_ChunkTextTerminates ==
    /\ [] ChunkInvariant
    /\ [][StartAdvances]_vars
    /\ <> (locals.pc = "done")

\* returned two chunks from overlapping windows and left out a shorter
\* last window
C30_Witness ==
    /\ locals # <<>>
    /\ locals.pc = "done"
    /\ args.overlap > 0
    /\ Len(locals.chunks) = 2
    /\ Cardinality(WindowStarts) = 3

-----------------------------------------------------------------------------
(* The unions of _find_duplicate_clusters taken in any order and without   *)
(* the "if i >= j: continue" filter, to compare with the order of the code. *)

AnyOrderThresholds == {20}

InitAnyOrder ==
    /\ \E n \in 0..MaxRows : embeddings \in [0..(n - 1) -> QueryRowVecs]
    /\ records = <<>>
    /\ threshold \in AnyOrderThresholds
    /\ sims = ZeroDiagonalSims(embeddings)
    /\ pairs = ArgwhereAtLeast(sims, threshold)
    /\ pairIdx = 0
    /\ parent = [i \in DOMAIN embeddings |-> i]
    /\ result = <<>>
    /\ prev = <<>>
    /\ pc = "loop"
    /\ pending = 1..Len(pairs)
    /\ args = <<>> /\ locals = <<>>
    /\ call = <<>>
    /\ IdlePolarity /\ IdleQuery /\ IdleEdges /\ IdleMerge /\ IdleFrames

\* union(int(i), int(j)) for the pair at position k of pairs, whichever of
\* i and j is smaller
UnionAnyPair(k) ==
    /\ pc = "loop"
    /\ k \in pending
    /\ parent' = Union(parent, pairs[k][1], pairs[k][2])
    /\ pending' = pending \ {k}
    /\ pairIdx' = pairIdx + 1
    /\ UNCHANGED <<threshold, sims, pairs, result, prev, pc>>
    /\ UNCHANGED <<polarityVars, storeVars, queryVars, call, edgeVars,
                   mergeVars, frames, args, locals>>

\* after all pairs: group by root, drop the groups of one, sort, return
GroupAnyOrder ==
    /\ pc = "loop"
    /\ pending = {}
    /\ LET g == GroupFrom(parent, <<>>, 0, NumRows(embeddings))
       IN  result' = SortByLenDesc(KeepGroups(g.clusters))
    /\ pc' = "done"
    /\ UNCHANGED <<threshold, sims, pairs, pairIdx, parent, prev, pending>>
    /\ UNCHANGED <<polarityVars, storeVars, queryVars, call, edgeVars,
                   mergeVars, frames, args, locals>>

NextAnyOrder ==
    \/ \E k \in 1..(MaxRows * MaxRows) : UnionAnyPair(k)
    \/ GroupAnyOrder

SpecAnyOrder == InitAnyOrder /\ [][NextAnyOrder]_vars

\* C29: whatever the order in which the qualifying ordered pairs (i, j) and
\* (j, i) are unioned, the clusters found are the clusters the function
\* finds by unioning the pairs with i < j in row-major order.
C29_OrderIndependent ==
    pc = "done" =>
        ClusterSets(result)
            = ClusterSets(FindDuplicateClusters(embeddings, threshold))

\* an order of unions that left another parent list than the loop of the
\* function leaves, on a store with a cluster of three or more
C29_Witness ==
    /\ pc = "done"
    /\ pending = {}
    /\ \E k \in 1..Len(result) : Len(result[k]) >= 3
    /\ parent # UnionPairs([i \in DOMAIN embeddings |-> i], pairs, 1)

=============================================================================
